---- MODULE Spec2Model ----
(***************************************************************************)
(* The text-sharing page (src/src/pages/TextSharing.jsx): shareText,       *)
(* fetchByCode and deleteByCode of several browser clients running against *)
(* one remote snippet collection.                                          *)
(*                                                                         *)
(* JavaScript strings whose characters matter (codes, passwords, texts,    *)
(* titles) are sequences of one-character strings; enumerations (toasts,   *)
(* program positions, syntax) are TLA+ strings.  null is the empty         *)
(* sequence.  One action is a store call of a handler (await getMongo()   *)
(* and the awaited call on the collection, which touch no state that       *)
(* another client's step reads in between) with the code that runs up to   *)
(* the next store call.                                                    *)
(***************************************************************************)
EXTENDS Integers, Sequences, FiniteSets, TLC

VARIABLES
    title, syntax, expiry, password, isPrivate, text,      \* create form (useState, per client)
    isSharing, generatedLink, createdCode, myCodes,
    lookupCode, lookupPassword, fetched, isLoadingFetch, isContentModalOpen,
    currentUser,                                           \* app.currentUser of each client
    share, fetch,                                          \* the frames of the handlers that are between two awaits
    done,                                                  \* history: the invocation that ended last
    store, nextId,                                         \* the remote collection, its _id generator
    now,                                                   \* Date.now()
    shared, retrievals,                                    \* history: what was entered per _id, contents returned per _id
    invocations, ticks,
    inputText, summary, isLoading, currentApiKeyIndex,     \* the summarizer page (useState)
    generate,                                              \* the frame of generateSummary
    localStorage,                                          \* the item "myCodes" of each client's browser
    saved,                                                 \* what getItem gave when the client mounted
    diagram,                                               \* the diagram page (useState)
    generateAI,                                            \* the frame of generateWithAI
    renders,                                               \* the calls of mermaid.render that are awaited
    timer                                                  \* the code the effect's timeout will render

formVars == <<title, syntax, expiry, password, isPrivate, text>>
shareVars == <<isSharing, generatedLink, createdCode>>
fetchVars == <<lookupCode, lookupPassword, fetched, isLoadingFetch, isContentModalOpen>>
histVars == <<shared, retrievals>>
summaryVars == <<inputText, summary, isLoading, currentApiKeyIndex, generate>>
storageVars == <<localStorage, saved>>
diagramVars == <<diagram, generateAI, renders, timer>>
vars == <<formVars, shareVars, myCodes, fetchVars, currentUser, share, fetch, done,
          store, nextId, now, histVars, invocations, ticks, summaryVars, storageVars,
          diagramVars>>

----------------------------------------------------------------------------
(* Bounds of the model *)

MaxInvocations == 3     \* handler invocations in all (Spec)
MaxShares == 2          \* shareText invocations (SpecShare)
MaxReaderOps == 3       \* handler invocations and clock advances in all (SpecRetrieval)
MaxStoreOps == 3        \* handler invocations and clock advances in all (SpecStore)
MaxGenerations == 2     \* generateSummary invocations (SpecSummary)
MaxClientOps == 3       \* handler invocations and page loads in all (SpecClient)
MaxSerialOps == 3       \* handler invocations in all (SpecSerial)
MaxDiagrams == 2        \* generateWithAI invocations (SpecDiagram)
MaxHandlerOps == 3      \* handler invocations and clock advances in all (SpecHandlersFair)

Clients == {"c1", "c2"}

(* Program constants *)

MaxAttempts == 5
CodeLen == 4
MS_PER_HOUR == 60 * 60 * 1000

(* A number of milliseconds (Date.now(), expiry, createdAt) is the pair of *)
(* its hours and the milliseconds over: h * 60 * 60 * 1000 + r.  JavaScript *)
(* numbers hold these values exactly; a 32-bit integer would not hold       *)
(* 720 * 60 * 60 * 1000.                                                   *)
Ms(h, r) == [h |-> h, r |-> r]
Zero == Ms(0, 0)
Plus(a, b) == Ms(a.h + b.h + ((a.r + b.r) \div MS_PER_HOUR), (a.r + b.r) % MS_PER_HOUR)
Less(a, b) == a.h < b.h \/ (a.h = b.h /\ a.r < b.r)
\* hours * 60 * 60 * 1000
Hours(hours) == Ms(hours, 0)

Null == <<>>

----------------------------------------------------------------------------
(* Strings *)

WhiteSpace == {" ", "\t", "\n"}

RECURSIVE TrimStart(_)
TrimStart(s) ==
    IF s # <<>> /\ Head(s) \in WhiteSpace THEN TrimStart(Tail(s)) ELSE s

RECURSIVE TrimEnd(_)
TrimEnd(s) ==
    IF s # <<>> /\ s[Len(s)] \in WhiteSpace THEN TrimEnd(SubSeq(s, 1, Len(s) - 1)) ELSE s

\* String.prototype.trim
Trim(s) == TrimEnd(TrimStart(s))

\* JavaScript truthiness of a string or null
Truthy(s) == s # <<>>

----------------------------------------------------------------------------
(* Short codes *)

ALPHABET ==
    << "a", "b", "c", "d", "e", "f", "g", "h", "i", "j", "k", "l", "m",
       "n", "o", "p", "q", "r", "s", "t", "u", "v", "w", "x", "y", "z",
       "0", "1", "2", "3", "4", "5", "6", "7", "8", "9" >>

GenerateShortCode_Short(len, picks) == [i \in 1..(len - 1) |-> ALPHABET[picks[i]]]

\* generateShortCode(len): picks[i] is Math.floor(Math.random() * ALPHABET.length) + 1
GenerateShortCode(len, picks) == [i \in 1..len |-> ALPHABET[picks[i]]]

\* the character class [a-z0-9] of the regular expression
LowerOrDigit ==
    { "a", "b", "c", "d", "e", "f", "g", "h", "i", "j", "k", "l", "m",
      "n", "o", "p", "q", "r", "s", "t", "u", "v", "w", "x", "y", "z" }
    \cup { "0", "1", "2", "3", "4", "5", "6", "7", "8", "9" }

IsValidShortCode_UpTo4(code) ==
    Len(code) <= 4 /\ \A i \in 1..Len(code) : code[i] \in LowerOrDigit

\* /^[a-z0-9]{4}$/.test(code)
IsValidShortCode(code) ==
    Len(code) = 4 /\ \A i \in 1..Len(code) : code[i] \in LowerOrDigit

----------------------------------------------------------------------------
(* Crypto.  A string value of the program is a record: either a plain      *)
(* text, or an AES blob that opens under exactly one passphrase.  SHA-256  *)
(* is an injective digest (collisions are not modelled).                   *)

Str(t) == [aes |-> FALSE, salt |-> "", key |-> <<>>, text |-> t]

Sha256Base64Url(input) == <<"sha256">> \o input

DerivePasswordTag_CodeOnly(pw, code) == Sha256Base64Url(code \o <<":">>)

\* derivePasswordTag(password, code) = sha256Base64Url("${code}:${password}")
DerivePasswordTag(pw, code) == Sha256Base64Url(code \o <<":">> \o pw)

\* CryptoJS.AES.encrypt(content, password).toString(): salted, passphrase-keyed
EncryptContent(content, pw, salt) == [aes |-> TRUE, salt |-> salt, key |-> pw, text |-> content]

\* What decryption under a wrong passphrase can give: Utf8 decoding throws,
\* or it yields an empty or an arbitrary string.
Garbage ==
    { [threw |-> TRUE, text |-> <<>>],
      [threw |-> FALSE, text |-> <<>>],
      [threw |-> FALSE, text |-> <<"?">>] }

\* decryptContent(ciphertext, password): the results it can have
DecryptContent(ciphertext, pw) ==
    IF ciphertext.aes /\ ciphertext.key = pw
    THEN { [threw |-> FALSE, text |-> ciphertext.text] }
    ELSE Garbage

----------------------------------------------------------------------------
(* The remote collection: documents in natural (insertion) order.  findOne, *)
(* updateOne and deleteOne act on the first document that matches.          *)

Matches_CodeOnly(doc, filter) == doc.code = filter.code

\* a document matches a filter {code} or {code, passwordTag}
Matches(doc, filter) ==
    /\ doc.code = filter.code
    /\ filter.hasTag => doc.passwordTag = filter.passwordTag

FirstMatch(coll, filter) ==
    LET hits == {k \in 1..Len(coll) : Matches(coll[k], filter)}
    IN IF hits = {} THEN 0 ELSE CHOOSE k \in hits : \A j \in hits : k <= j

CodeFilter(code) == [code |-> code, hasTag |-> FALSE, passwordTag |-> Null]

\* snippets.findOne(filter): the document, or null
FindOne_Blind(coll, filter) == Null

FindOne(coll, filter) ==
    IF FirstMatch(coll, filter) = 0 THEN Null ELSE coll[FirstMatch(coll, filter)]

\* snippets.insertOne(doc): the store assigns _id
InsertOne(coll, doc, id) == Append(coll, [doc EXCEPT !._id = id])

UpdateOne_NoOp(coll, code) == coll

\* snippets.updateOne({ code }, { $inc: { views: 1 } })
UpdateOne(coll, code) ==
    LET k == FirstMatch(coll, CodeFilter(code))
    IN IF k = 0 THEN coll ELSE [coll EXCEPT ![k].views = @ + 1]

DeleteOne_AnyCode(coll, code) == IF coll = <<>> THEN coll ELSE Tail(coll)

\* snippets.deleteOne({ code })
DeleteOne(coll, code) ==
    LET k == FirstMatch(coll, CodeFilter(code))
    IN IF k = 0 THEN coll ELSE SubSeq(coll, 1, k - 1) \o SubSeq(coll, k + 1, Len(coll))

----------------------------------------------------------------------------
(* The persisted list of the client's codes.  The item "myCodes" of        *)
(* localStorage is a string or null (nothing stored); each client is a     *)
(* browser with a storage of its own.                                      *)

RECURSIVE JsonArray(_)
\* the elements of a JSON array of strings, quoted, with commas between them
JsonArray(seq) ==
    IF seq = <<>> THEN <<>>
    ELSE IF Len(seq) = 1 THEN <<"\"">> \o seq[1] \o <<"\"">>
    ELSE <<"\"">> \o seq[1] \o <<"\"", ",">> \o JsonArray(Tail(seq))

\* JSON.stringify(myCodes): the codes hold no character that is escaped
JsonStringify(seq) == <<"[">> \o JsonArray(seq) \o <<"]">>

RECURSIVE JsonStrings(_, _, _)
\* the string literals of a JSON text, in order: cur is the literal being read
JsonStrings(s, cur, inside) ==
    IF s = <<>> THEN <<>>
    ELSE IF Head(s) = "\""
         THEN IF inside THEN <<cur>> \o JsonStrings(Tail(s), <<>>, FALSE)
              ELSE JsonStrings(Tail(s), <<>>, TRUE)
    ELSE IF inside THEN JsonStrings(Tail(s), Append(cur, Head(s)), TRUE)
    ELSE JsonStrings(Tail(s), cur, FALSE)

\* JSON.parse(saved) of a stringified array of strings
JsonParse(s) == JsonStrings(s, <<>>, FALSE)

InitialMyCodes_Fresh(item) == <<>>

\* saved ? JSON.parse(saved) : []
InitialMyCodes(item) == IF Truthy(item) THEN JsonParse(item) ELSE <<>>

\* useEffect(() => localStorage.setItem("myCodes", JSON.stringify(myCodes)), [myCodes]):
\* runs after the render that a change of myCodes causes
MyCodesEffect(c) ==
    localStorage' = [localStorage EXCEPT ![c] = JsonStringify(myCodes'[c])]

----------------------------------------------------------------------------
(* shareText *)

Untitled == <<"U", "n", "t", "i", "t", "l", "e", "d">>

\* (title || "Untitled").trim()
StoredTitle(ttl) == Trim(IF Truthy(ttl) THEN ttl ELSE Untitled)

\* expiry === 0 ? 0 : now + expiry * 60 * 60 * 1000
ExpiryTime_NoNever(hours, t) == Plus(t, Hours(hours))

ExpiryTime(hours, t) == IF hours = 0 THEN Zero ELSE Plus(t, Hours(hours))

HasPassword_Untrimmed(pw) == Truthy(pw)

\* !!password.trim()
HasPassword(pw) == Truthy(Trim(pw))

PasswordTagFor_Untrimmed(pw, code) ==
    IF HasPassword(pw) THEN DerivePasswordTag(pw, code) ELSE Null

\* hasPassword ? derivePasswordTag(password.trim(), code) : null
PasswordTagFor(pw, code) ==
    IF HasPassword(pw) THEN DerivePasswordTag(Trim(pw), code) ELSE Null

StoredContent_Untrimmed(txt, pw, salt) ==
    IF HasPassword(pw) THEN EncryptContent(txt, pw, salt) ELSE Str(txt)

\* hasPassword ? encryptContent(text, password.trim()) : text
StoredContent(txt, pw, salt) ==
    IF HasPassword(pw) THEN EncryptContent(txt, Trim(pw), salt) ELSE Str(txt)

\* the create form of the client c, as the handler's closure holds it
Form(c) ==
    [text |-> text[c], title |-> title[c], syntax |-> syntax[c], expiry |-> expiry[c],
     password |-> password[c], isPrivate |-> isPrivate[c]]

\* const doc = { code, title, content, syntax, expiry, isPrivate, passwordTag,
\* createdAt, views } (lines 170-188)
NewDoc(form, code, t, salt) ==
    [ _id |-> 0,
      code |-> code,
      title |-> StoredTitle(form.title),
      content |-> StoredContent(form.text, form.password, salt),
      syntax |-> form.syntax,
      expiry |-> ExpiryTime(form.expiry, t),
      isPrivate |-> form.isPrivate,
      passwordTag |-> PasswordTagFor(form.password, code),
      createdAt |-> t,
      views |-> 0 ]

LoopAgain_Six(existing, i) == existing # Null /\ i < MaxAttempts + 1

\* the for loop goes round again: a collision, and i < 5 after i++
LoopAgain(existing, i) == existing # Null /\ i < MaxAttempts

AllocationFailed_Never(code) == FALSE

\* if (!code)
AllocationFailed(code) == ~Truthy(code)

RECURSIVE Dedupe(_)
\* [...new Set(seq)]: first occurrences, in order
Dedupe(seq) ==
    IF seq = <<>> THEN <<>>
    ELSE LET rest == Dedupe(SubSeq(seq, 1, Len(seq) - 1))
             x == seq[Len(seq)]
         IN IF \E k \in 1..Len(rest) : rest[k] = x THEN rest ELSE Append(rest, x)

AddCode_AtEnd(code, prev) == Dedupe(Append(prev, code))

\* the updater of setMyCodes in shareText: (prev) => [...new Set([code, ...prev])]
AddCode(code, prev) == Dedupe(<<code>> \o prev)

\* the updater of setMyCodes in deleteByCode: (prev) => prev.filter((c) => c !== code)
RemoveCode(code, prev) == SelectSeq(prev, LAMBDA x : x # code)

ShareLink(code) == <<"origin", "/share/">> \o code

IsBlank_EmptyOnly(txt) == ~Truthy(txt)

\* !text.trim()
IsBlank(txt) == ~Truthy(Trim(txt))

ShareIdle ==
    [pc |-> "idle", i |-> 0, code |-> Null, doc |-> Null, checkedAt |-> 0,
     checks |-> <<>>, steps |-> <<>>, toasts |-> <<>>]

(* How an awaited store call ends: await getMongo() throws (only when it   *)
(* has to log in), the call on the collection throws, or the call returns. *)
StoreOutcomes == {"ok", "logInThrows", "callThrows"}

\* getMongo(): if (!app.currentUser) await app.logIn(...)
GetMongoSteps(c) == IF currentUser[c] THEN <<>> ELSE <<"logIn">>

GetMongo(c, outcome) ==
    /\ outcome = "logInThrows" => ~currentUser[c]
    /\ currentUser' = [currentUser EXCEPT ![c] = @ \/ outcome # "logInThrows"]

\* the record of an invocation that has ended: its frame, with the toasts it showed
Ended(kind, c, f, toast) ==
    [n |-> done.n + 1, kind |-> kind, c |-> c,
     f |-> [f EXCEPT !.pc = "idle", !.toasts = Append(@, toast)]]

ShareThrows_NoFinally(c, f) ==
    /\ share' = [share EXCEPT ![c] = ShareIdle]
    /\ isSharing' = [isSharing EXCEPT ![c] = TRUE]
    /\ done' = Ended("share", c, f, "Failed to share")

\* catch (e) { toast.error("Failed to share") } finally { setIsSharing(false) }
ShareThrows(c, f) ==
    /\ share' = [share EXCEPT ![c] = ShareIdle]
    /\ isSharing' = [isSharing EXCEPT ![c] = FALSE]
    /\ done' = Ended("share", c, f, "Failed to share")

\* One round of the allocation loop from the frame f0: await getMongo(), await
\* snippets.findOne({ code }), and the code up to the next await (lines 159-189).
ShareCheck(c, form, f0, outcome, picks, salt) ==
    LET f1 == [f0 EXCEPT !.steps = @ \o GetMongoSteps(c)]
        f == [f1 EXCEPT !.steps = Append(@, "findOne")]
        existing == FindOne(store, CodeFilter(f.code))
        checks == Append(f.checks, [code |-> f.code, existing |-> existing # Null])
        iAfter == IF existing = Null THEN f.i ELSE f.i + 1
        codeAfter == IF existing = Null THEN f.code ELSE Null
        g == [f EXCEPT !.checks = checks, !.i = iAfter, !.code = codeAfter]
    IN /\ GetMongo(c, outcome)
       /\ IF outcome = "logInThrows" THEN ShareThrows(c, f1)
          ELSE IF outcome = "callThrows" THEN ShareThrows(c, f)
          ELSE IF LoopAgain(existing, iAfter)
          THEN /\ share' = [share EXCEPT ![c] =
                              [g EXCEPT !.pc = "findOne",
                                        !.code = GenerateShortCode(CodeLen, picks)]]
               /\ isSharing' = [isSharing EXCEPT ![c] = TRUE]
               /\ UNCHANGED done
          ELSE IF AllocationFailed(codeAfter)
          THEN /\ share' = [share EXCEPT ![c] = ShareIdle]
               /\ isSharing' = [isSharing EXCEPT ![c] = FALSE]
               /\ done' = Ended("share", c, g,
                                "Failed to allocate unique code, please try again")
          ELSE /\ share' = [share EXCEPT ![c] =
                              [g EXCEPT !.pc = "insertOne", !.checkedAt = nextId,
                                        !.doc = NewDoc(form, codeAfter, now, salt)]]
               /\ isSharing' = [isSharing EXCEPT ![c] = TRUE]
               /\ UNCHANGED done

\* The user has filled the create form in (onChange, lines 328-395) and
\* activates shareText: the handler up to the end of the first round of the
\* allocation loop (lines 146-189).
ShareText(c, form, outcome, picks, picks2, salt) ==
    /\ share[c].pc = "idle"
    /\ invocations' = [invocations EXCEPT !.share = @ + 1]
    /\ text' = [text EXCEPT ![c] = form.text]
    /\ title' = [title EXCEPT ![c] = form.title]
    /\ syntax' = [syntax EXCEPT ![c] = form.syntax]
    /\ expiry' = [expiry EXCEPT ![c] = form.expiry]
    /\ password' = [password EXCEPT ![c] = form.password]
    /\ isPrivate' = [isPrivate EXCEPT ![c] = form.isPrivate]
    /\ IF IsBlank(form.text)
       THEN /\ done' = Ended("share", c, ShareIdle, "Please enter some text to share")
            /\ UNCHANGED <<share, isSharing, currentUser>>
       ELSE ShareCheck(c, form, [ShareIdle EXCEPT !.code = GenerateShortCode(CodeLen, picks)],
                       outcome, picks2, salt)
    /\ UNCHANGED <<diagramVars, summaryVars, storageVars, generatedLink, createdCode, myCodes, fetchVars, fetch,
                   store, nextId, now, histVars, ticks>>

\* A later round of the allocation loop (lines 157-189 with i > 0).
ShareFindOne(c, outcome, picks, salt) ==
    /\ share[c].pc = "findOne"
    /\ ShareCheck(c, Form(c), share[c], outcome, picks, salt)
    /\ UNCHANGED <<diagramVars, summaryVars, storageVars, formVars, generatedLink, createdCode, myCodes, fetchVars, fetch,
                   store, nextId, now, histVars, invocations, ticks>>

\* await getMongo(), await snippets.insertOne(doc) and the rest of shareText
\* (lines 190-208)
ShareInsertOne(c, outcome) ==
    /\ share[c].pc = "insertOne"
    /\ GetMongo(c, outcome)
    /\ LET f1 == [share[c] EXCEPT !.steps = @ \o GetMongoSteps(c)]
           f == [f1 EXCEPT !.steps = Append(@, "insertOne")]
       IN IF outcome # "ok"
          THEN /\ ShareThrows(c, IF outcome = "logInThrows" THEN f1 ELSE f)
               /\ UNCHANGED <<text, password, isPrivate, generatedLink, createdCode, myCodes,
                              localStorage, store, nextId, histVars>>
          ELSE /\ store' = InsertOne(store, f.doc, nextId)
               /\ nextId' = nextId + 1
               /\ shared' = Append(shared, [text |-> text[c], password |-> password[c],
                                            title |-> title[c], hours |-> expiry[c],
                                            checkedAt |-> f.checkedAt, by |-> c])
               /\ retrievals' = Append(retrievals, 0)
               /\ generatedLink' = [generatedLink EXCEPT ![c] = ShareLink(f.code)]
               /\ createdCode' = [createdCode EXCEPT ![c] = f.code]
               /\ myCodes' = [myCodes EXCEPT ![c] = AddCode(f.code, @)]
               /\ MyCodesEffect(c)
               /\ text' = [text EXCEPT ![c] = <<>>]
               /\ password' = [password EXCEPT ![c] = <<>>]
               /\ isPrivate' = [isPrivate EXCEPT ![c] = FALSE]
               /\ share' = [share EXCEPT ![c] = ShareIdle]
               /\ isSharing' = [isSharing EXCEPT ![c] = FALSE]
               /\ done' = Ended("share", c, f, "Text shared successfully!")
    /\ UNCHANGED <<diagramVars, summaryVars, saved, title, syntax, expiry, fetchVars, fetch, now, invocations, ticks>>

----------------------------------------------------------------------------
(* fetchByCode *)

InvalidCodeToast == "Enter a valid 4-char code (lowercase letters and digits)"
NotFoundToast == "Not found or password required/invalid"
ExpiredToast == "This snippet has expired"
PasswordRequiredToast == "Password required"
InvalidPasswordToast == "Invalid password"
FetchFailedToast == "Fetch failed"

UPPER ==
    << "A", "B", "C", "D", "E", "F", "G", "H", "I", "J", "K", "L", "M",
       "N", "O", "P", "Q", "R", "S", "T", "U", "V", "W", "X", "Y", "Z" >>

\* String.prototype.toLowerCase
ToLowerCase(s) ==
    [k \in 1..Len(s) |->
        IF \E j \in 1..26 : UPPER[j] = s[k]
        THEN ALPHABET[CHOOSE j \in 1..26 : UPPER[j] = s[k]]
        ELSE s[k]]

\* truthiness of a string value
StrTruthy(v) == v.aes \/ v.text # <<>>

\* filter = { code }; if (pass) filter.passwordTag = derivePasswordTag(pass, code)
LookupFilter(code, pass) ==
    IF Truthy(pass)
    THEN [code |-> code, hasTag |-> TRUE, passwordTag |-> DerivePasswordTag(pass, code)]
    ELSE CodeFilter(code)

IsExpired_Inclusive(doc, t) == doc.expiry # Zero /\ ~Less(t, doc.expiry)

\* doc.expiry !== 0 && doc.expiry < now
IsExpired(doc, t) == doc.expiry # Zero /\ Less(doc.expiry, t)

Pass(steps, contentOut) == [toast |-> "", steps |-> steps, contentOut |-> contentOut]
Stop(steps, toast) == [toast |-> toast, steps |-> steps, contentOut |-> Null]

\* contentOut = decryptContent(doc.content, pass), with its two failure exits (lines 260-269)
Decrypted(doc, pass) ==
    { IF r.threw \/ ~Truthy(r.text)
      THEN Stop(<<"expiry", "decrypt">>, InvalidPasswordToast)
      ELSE Pass(<<"expiry", "decrypt">>, Str(r.text)) : r \in DecryptContent(doc.content, pass) }

Guard_PasswordFirst(doc, pass, t) ==
    IF doc = Null THEN { Stop(<<>>, NotFoundToast) }
    ELSE IF Truthy(doc.passwordTag) /\ ~Truthy(pass)
    THEN { Stop(<<"expiry">>, PasswordRequiredToast) }
    ELSE IF IsExpired(doc, t) THEN { Stop(<<"expiry">>, ExpiredToast) }
    ELSE IF Truthy(doc.passwordTag) THEN Decrypted(doc, pass)
    ELSE { Pass(<<"expiry">>, doc.content) }

Guard_NoPasswordCheck(doc, pass, t) ==
    IF doc = Null THEN { Stop(<<>>, NotFoundToast) }
    ELSE IF IsExpired(doc, t) THEN { Stop(<<"expiry">>, ExpiredToast) }
    ELSE IF Truthy(doc.passwordTag) THEN Decrypted(doc, pass)
    ELSE { Pass(<<"expiry">>, doc.content) }

\* What fetchByCode does with the result of findOne, up to the views increment
\* (lines 243-270): the checks in their order, the steps performed, the toast
\* of the first failing check.  A set: the results the attempt can have.
Guard(doc, pass, t) ==
    IF doc = Null THEN { Stop(<<>>, NotFoundToast) }
    ELSE IF IsExpired(doc, t) THEN { Stop(<<"expiry">>, ExpiredToast) }
    ELSE IF Truthy(doc.passwordTag)
    THEN IF ~Truthy(pass)
         THEN { Stop(<<"expiry">>, PasswordRequiredToast) }
         ELSE Decrypted(doc, pass)
    ELSE { Pass(<<"expiry">>, doc.content) }

FetchIdle ==
    [pc |-> "idle", rawCode |-> Null, code |-> Null, pass |-> Null,
     filter |-> CodeFilter(Null), now |-> Zero, doc |-> Null, contentOut |-> Null,
     seen |-> <<>>, steps |-> <<>>, toasts |-> <<>>]

FetchStops_NoFinally(c, f, toast) ==
    /\ fetch' = [fetch EXCEPT ![c] = FetchIdle]
    /\ isLoadingFetch' = [isLoadingFetch EXCEPT ![c] = TRUE]
    /\ done' = Ended("fetch", c, f, toast)

\* a failure exit of fetchByCode after setIsLoadingFetch(true): the toast, then finally
FetchStops(c, f, toast) ==
    /\ fetch' = [fetch EXCEPT ![c] = FetchIdle]
    /\ isLoadingFetch' = [isLoadingFetch EXCEPT ![c] = FALSE]
    /\ done' = Ended("fetch", c, f, toast)

\* The user has entered a code and a password (onChange, lines 456 and 467)
\* and activates fetchByCode: the handler up to the await of updateOne
\* (lines 221-270).
FetchByCode(c, lc, lp, outcome) ==
    /\ fetch[c].pc = "idle"
    /\ invocations' = [invocations EXCEPT !.fetch = @ + 1]
    /\ LET raw == ToLowerCase(lc)
           code == Trim(raw)
           pass == Trim(lp)
           f0 == [FetchIdle EXCEPT !.rawCode = raw, !.code = code, !.pass = pass,
                                   !.steps = <<"validate">>]
           f1 == [f0 EXCEPT !.steps = @ \o GetMongoSteps(c),
                            !.filter = LookupFilter(code, pass), !.now = now]
           f == [f1 EXCEPT !.steps = Append(@, "findOne")]
           doc == FindOne(store, f.filter)
           h == [f EXCEPT !.doc = doc,
                          !.seen = SelectSeq(store, LAMBDA d : d.code = code)]
       IN /\ lookupCode' = [lookupCode EXCEPT ![c] = raw]
          /\ lookupPassword' = [lookupPassword EXCEPT ![c] = lp]
          /\ IF ~IsValidShortCode(code)
             THEN /\ done' = Ended("fetch", c, f0, InvalidCodeToast)
                  /\ UNCHANGED <<fetch, isLoadingFetch, fetched, currentUser>>
             ELSE /\ GetMongo(c, outcome)
                  /\ fetched' = [fetched EXCEPT ![c] = Null]
                  /\ IF outcome = "logInThrows" THEN FetchStops(c, f1, FetchFailedToast)
                     ELSE IF outcome = "callThrows" THEN FetchStops(c, f, FetchFailedToast)
                     ELSE \E r \in Guard(doc, pass, f.now) :
                            LET hr == [h EXCEPT !.steps = @ \o r.steps]
                            IN IF r.toast # "" THEN FetchStops(c, hr, r.toast)
                               ELSE /\ fetch' = [fetch EXCEPT ![c] =
                                                   [hr EXCEPT !.pc = "updateOne",
                                                              !.contentOut = r.contentOut]]
                                    /\ isLoadingFetch' = [isLoadingFetch EXCEPT ![c] = TRUE]
                                    /\ UNCHANGED done
    /\ UNCHANGED <<diagramVars, summaryVars, storageVars, formVars, shareVars, myCodes, isContentModalOpen, share,
                   store, nextId, now, histVars, ticks>>

\* await snippets.updateOne(...) and the rest of fetchByCode (lines 273-288)
FetchUpdateOne(c, outcome) ==
    /\ fetch[c].pc = "updateOne"
    /\ outcome # "logInThrows"
    /\ LET f == [fetch[c] EXCEPT !.steps = Append(@, "updateOne")]
       IN IF outcome = "callThrows"
          THEN /\ FetchStops(c, f, FetchFailedToast)
               /\ UNCHANGED <<store, fetched, isContentModalOpen, lookupCode, lookupPassword,
                              retrievals>>
          ELSE /\ store' = UpdateOne(store, f.code)
               /\ fetch' = [fetch EXCEPT ![c] = FetchIdle]
               /\ isLoadingFetch' = [isLoadingFetch EXCEPT ![c] = FALSE]
               /\ done' = [n |-> done.n + 1, kind |-> "fetch", c |-> c,
                           f |-> [f EXCEPT !.pc = "idle"]]
               /\ IF StrTruthy(f.contentOut)
                  THEN /\ fetched' = [fetched EXCEPT ![c] =
                                        [f.doc EXCEPT !.content = f.contentOut]]
                       /\ isContentModalOpen' = [isContentModalOpen EXCEPT ![c] = TRUE]
                       /\ lookupCode' = [lookupCode EXCEPT ![c] = <<>>]
                       /\ lookupPassword' = [lookupPassword EXCEPT ![c] = <<>>]
                  ELSE /\ fetched' = [fetched EXCEPT ![c] = f.doc]
                       /\ UNCHANGED <<isContentModalOpen, lookupCode, lookupPassword>>
               /\ retrievals' = [retrievals EXCEPT ![f.doc._id] = @ + 1]
    /\ UNCHANGED <<diagramVars, summaryVars, storageVars, formVars, shareVars, myCodes, currentUser, share, nextId, now,
                   shared, invocations, ticks>>

----------------------------------------------------------------------------
(* deleteByCode *)

DeleteIdle == [pc |-> "idle", code |-> Null, steps |-> <<>>, toasts |-> <<>>]

\* The user activates the delete button of the k-th entry of the myCodes list:
\* the whole handler (lines 292-302), which awaits one store call.
DeleteByCode(c, k, outcome) ==
    /\ k \in 1..Len(myCodes[c])
    /\ invocations' = [invocations EXCEPT !.del = @ + 1]
    /\ GetMongo(c, outcome)
    /\ LET code == myCodes[c][k]
           f1 == [DeleteIdle EXCEPT !.code = code, !.steps = GetMongoSteps(c)]
           f == [f1 EXCEPT !.steps = Append(@, "deleteOne")]
       IN IF outcome # "ok"
          THEN /\ done' = Ended("delete", c, IF outcome = "logInThrows" THEN f1 ELSE f,
                                "Delete failed (check rules)")
               /\ UNCHANGED <<store, myCodes, localStorage>>
          ELSE /\ store' = DeleteOne(store, code)
               /\ myCodes' = [myCodes EXCEPT ![c] = RemoveCode(code, @)]
               /\ MyCodesEffect(c)
               /\ done' = Ended("delete", c, f, "Deleted")
    /\ UNCHANGED <<diagramVars, summaryVars, saved, formVars, shareVars, fetchVars, share, fetch,
                   nextId, now, histVars, ticks>>

----------------------------------------------------------------------------
(* The summarizer page (src/src/pages/TextSummarizer.jsx): generateSummary. *)
(* generateWithAI of src/src/pages/DiagramGenerator.jsx has the same loop.  *)

GEMINI_API_KEYS == << "key1", "key2", "key3", "key4" >>

\* the value of the summary state: '', a generated summary, or the error text
NoSummary == [kind |-> "none", message |-> ""]

\* how a request ends: fetch rejects, the response is not ok, the response
\* holds no text, or it holds a summary
Responses == { "rejected", "notOk", "noText", "summary" }

\* error.message of the failure of a request
ErrorMessage(response) ==
    IF response = "rejected" THEN "Failed to fetch"
    ELSE IF response = "notOk" THEN "API Error"
    ELSE "No summary generated"

\* the closure of one invocation: index is the currentApiKeyIndex of the
\* render that created the handler, which no setCurrentApiKeyIndex changes
GenerateIdle ==
    [pc |-> "idle", index |-> 0, attempts |-> 0, generatedSummary |-> FALSE,
     requests |-> <<>>, responses |-> <<>>, toasts |-> <<>>]

Toast(kind, message) == [kind |-> kind, message |-> message]

\* while (attempts < maxAttempts && !generatedSummary)
WhileCondition(attempts, generatedSummary) ==
    attempts < Len(GEMINI_API_KEYS) /\ ~generatedSummary

HasNextKey_Always(attempts) == TRUE

\* if (attempts < maxAttempts - 1)
HasNextKey(attempts) == attempts < Len(GEMINI_API_KEYS) - 1

\* the key of the request: GEMINI_API_KEYS[currentApiKeyIndex], read from the closure
RequestKey(g) == GEMINI_API_KEYS[g.index + 1]

\* the while loop from its condition to the next await fetch(...) or to the
\* end of the handler (lines 63-65 and 116)
GenerateLoop(g) ==
    IF WhileCondition(g.attempts, g.generatedSummary)
    THEN /\ generate' = [g EXCEPT !.pc = "fetch", !.requests = Append(@, RequestKey(g))]
         /\ isLoading' = TRUE
    ELSE /\ generate' = [g EXCEPT !.pc = "idle"]
         /\ isLoading' = FALSE

\* The user has entered a text (handleTextChange, line 211) and activates
\* generateSummary: the handler up to the first await fetch (lines 48-65).
GenerateSummary(txt) ==
    /\ generate.pc = "idle"
    /\ invocations' = [invocations EXCEPT !.generate = @ + 1]
    /\ inputText' = txt
    /\ IF ~Truthy(Trim(txt))
       THEN /\ generate' = [GenerateIdle EXCEPT
                               !.toasts = << Toast("error", "Please enter some text to summarize") >>]
            /\ UNCHANGED <<summary, isLoading>>
       ELSE /\ summary' = NoSummary
            /\ GenerateLoop([GenerateIdle EXCEPT !.index = currentApiKeyIndex])
    /\ UNCHANGED currentApiKeyIndex
    /\ UNCHANGED <<diagramVars, storageVars, formVars, shareVars, myCodes, fetchVars, currentUser, share, fetch, done,
                   store, nextId, now, histVars, ticks>>

\* The awaited request ends: the rest of the loop body, and the handler up to
\* the next await fetch or to its end (lines 65-117).
Response(response) ==
    /\ generate.pc = "fetch"
    /\ LET g == [generate EXCEPT !.responses = Append(@, response)]
           nextIndex == (g.index + 1) % Len(GEMINI_API_KEYS)
       IN IF response = "summary"
          THEN /\ summary' = [kind |-> "summary", message |-> "text"]
               /\ GenerateLoop([g EXCEPT !.generatedSummary = TRUE,
                                         !.attempts = @ + 1,
                                         !.toasts = Append(@, Toast("success",
                                                      "Summary generated successfully!"))])
               /\ UNCHANGED currentApiKeyIndex
          ELSE IF HasNextKey(g.attempts)
          THEN /\ currentApiKeyIndex' = nextIndex
               /\ GenerateLoop([g EXCEPT !.attempts = @ + 1,
                                         !.toasts = Append(@, Toast("info", "Trying next API key"))])
               /\ UNCHANGED summary
          ELSE /\ summary' = [kind |-> "error", message |-> ErrorMessage(response)]
               /\ generate' = [g EXCEPT !.pc = "idle",
                                        !.toasts = Append(@, Toast("error",
                                           "Failed to generate summary. Please try again later."))]
               /\ isLoading' = FALSE
               /\ UNCHANGED currentApiKeyIndex
    /\ UNCHANGED <<inputText, invocations>>
    /\ UNCHANGED <<diagramVars, storageVars, formVars, shareVars, myCodes, fetchVars, currentUser, share, fetch, done,
                   store, nextId, now, histVars, ticks>>

----------------------------------------------------------------------------
(* The diagram page (src/src/pages/DiagramGenerator.jsx): generateWithAI,  *)
(* renderDiagram and the effect that renders the code after a pause.  A    *)
(* response text is a sequence of characters in which a fence (three back  *)
(* quotes), alone or with the word mermaid after it, is a single element.  *)

OpenFence == "[fence]mermaid"
CloseFence == "[fence]"

\* the places where a fence occurs in the text: a closing fence, or the
\* start of an opening one
Fences(txt) == { k \in 1..Len(txt) : txt[k] \in { OpenFence, CloseFence } }

\* responseText.match(codeBlockRegex): the place of the leftmost
\* opening fence that a fence follows, or 0
FenceMatch(txt) ==
    LET opens == { k \in 1..Len(txt) : txt[k] = OpenFence /\ \E j \in Fences(txt) : j > k }
    IN IF opens = {} THEN 0 ELSE CHOOSE k \in opens : \A j \in opens : k <= j

\* match ? match[1].trim() : responseText.trim()
ExtractCode(txt) ==
    LET i == FenceMatch(txt)
        j == CHOOSE k \in Fences(txt) : k > i /\ \A m \in Fences(txt) : m > i => k <= m
    IN IF i = 0 THEN Trim(txt) ELSE Trim(SubSeq(txt, i + 1, j - 1))

\* useState of the component (lines 143-151)
DiagramInitial ==
    [inputText |-> <<>>, mermaidCode |-> <<>>, renderedSvg |-> Null, isGenerating |-> FALSE,
     isRendering |-> FALSE, error |-> "", currentApiKeyIndex |-> 0]

\* the closure of one invocation: index is the currentApiKeyIndex of the
\* render that created the handler
GenerateAIIdle ==
    [pc |-> "idle", index |-> 0, attempts |-> 0, generatedCode |-> <<>>,
     requests |-> <<>>, responses |-> <<>>, toasts |-> <<>>]

\* how a request ends: fetch rejects, the response is not ok, or it is ok
\* and holds a text (none, when the text is empty)
Answer(kind, txt) == [kind |-> kind, text |-> txt]

\* renderDiagram(code) up to its await (lines 239-250), on the page state d
\* and the awaited renders r
RenderDiagram(d, r, code) ==
    IF ~Truthy(Trim(code))
    THEN [d |-> [d EXCEPT !.renderedSvg = Null, !.error = ""], r |-> r]
    ELSE [d |-> [d EXCEPT !.isRendering = TRUE, !.error = ""], r |-> Append(r, code)]

\* the effect of lines 260-267, run when mermaidCode has changed: the
\* timeout of the render before is cleared, and one is set if there is code
TimerAfter(before, code) ==
    IF code = before THEN timer ELSE IF Truthy(code) THEN code ELSE Null

\* while (attempts < maxAttempts && !generatedCode)
WhileGenerating(attempts, generatedCode) ==
    attempts < Len(GEMINI_API_KEYS) /\ ~Truthy(generatedCode)

\* the while loop from its condition to the next await fetch(...) or to the
\* end of the handler (lines 172-174 and 227-229), with the page state d
GenerateAILoop(g, d) ==
    IF WhileGenerating(g.attempts, g.generatedCode)
    THEN /\ generateAI' = [g EXCEPT !.pc = "fetch",
                                     !.requests = Append(@, GEMINI_API_KEYS[g.index + 1])]
         /\ diagram' = [d EXCEPT !.isGenerating = TRUE]
    ELSE /\ generateAI' = [g EXCEPT !.pc = "idle"]
         /\ diagram' = [d EXCEPT !.isGenerating = FALSE]

\* The user has entered a description (line 378) and activates
\* generateWithAI: the handler up to the first await fetch (lines 154-174).
GenerateWithAI(txt) ==
    /\ generateAI.pc = "idle"
    /\ invocations' = [invocations EXCEPT !.generateAI = @ + 1]
    /\ LET d == [diagram EXCEPT !.inputText = txt]
       IN IF ~Truthy(Trim(txt))
          THEN /\ generateAI' = [GenerateAIIdle EXCEPT
                                    !.toasts = << Toast("error", "Please enter a description") >>]
               /\ diagram' = d
          ELSE GenerateAILoop([GenerateAIIdle EXCEPT !.index = diagram.currentApiKeyIndex],
                              [d EXCEPT !.error = ""])
    /\ UNCHANGED <<renders, timer>>
    /\ UNCHANGED <<summaryVars, storageVars, formVars, shareVars, myCodes, fetchVars, currentUser,
                   share, fetch, done, store, nextId, now, histVars, ticks>>

\* The awaited request ends: the rest of the loop body, and the handler up to
\* the next await fetch or to its end (lines 174-229).
AIResponse(response) ==
    /\ generateAI.pc = "fetch"
    /\ LET g == [generateAI EXCEPT !.responses = Append(@, response)]
           nextIndex == (g.index + 1) % Len(GEMINI_API_KEYS)
           code == ExtractCode(response.text)
           rendered == RenderDiagram([diagram EXCEPT !.mermaidCode = code], renders, code)
       IN IF response.kind = "ok" /\ Truthy(response.text)
          THEN /\ renders' = rendered.r
               /\ timer' = TimerAfter(diagram.mermaidCode, code)
               /\ GenerateAILoop([g EXCEPT !.generatedCode = code,
                                           !.attempts = @ + 1,
                                           !.toasts = Append(@, Toast("success",
                                                        "Diagram generated with AI!"))],
                                 rendered.d)
          ELSE IF HasNextKey(g.attempts)
          THEN /\ GenerateAILoop([g EXCEPT !.attempts = @ + 1,
                                           !.toasts = Append(@, Toast("info", "Trying next API key"))],
                                 [diagram EXCEPT !.currentApiKeyIndex = nextIndex])
               /\ UNCHANGED <<renders, timer>>
          ELSE /\ generateAI' = [g EXCEPT !.pc = "idle",
                                          !.toasts = Append(@, Toast("error",
                                                       "Failed to generate diagram"))]
               /\ diagram' = [diagram EXCEPT
                                 !.error = "AI generation failed. Please try manual code or another description.",
                                 !.isGenerating = FALSE]
               /\ UNCHANGED <<renders, timer>>
    /\ UNCHANGED invocations
    /\ UNCHANGED <<summaryVars, storageVars, formVars, shareVars, myCodes, fetchVars, currentUser,
                   share, fetch, done, store, nextId, now, histVars, ticks>>

\* The timeout of the effect fires, 500 ms after mermaidCode changed:
\* renderDiagram(mermaidCode) (lines 262-264).
RenderTimeout ==
    /\ timer # Null
    /\ LET rendered == RenderDiagram(diagram, renders, timer)
       IN /\ diagram' = rendered.d
          /\ renders' = rendered.r
    /\ timer' = Null
    /\ UNCHANGED <<generateAI, invocations>>
    /\ UNCHANGED <<summaryVars, storageVars, formVars, shareVars, myCodes, fetchVars, currentUser,
                   share, fetch, done, store, nextId, now, histVars, ticks>>

\* The k-th awaited mermaid.render returns or throws: the rest of
\* renderDiagram (lines 250-257).
RenderEnds(k, threw) ==
    /\ k \in 1..Len(renders)
    /\ diagram' = IF threw
                  THEN [diagram EXCEPT
                          !.error = "Invalid diagram syntax. Please check your Mermaid code.",
                          !.isRendering = FALSE]
                  ELSE [diagram EXCEPT !.renderedSvg = renders[k], !.isRendering = FALSE]
    /\ renders' = SubSeq(renders, 1, k - 1) \o SubSeq(renders, k + 1, Len(renders))
    /\ UNCHANGED <<generateAI, timer, invocations>>
    /\ UNCHANGED <<summaryVars, storageVars, formVars, shareVars, myCodes, fetchVars, currentUser,
                   share, fetch, done, store, nextId, now, histVars, ticks>>

----------------------------------------------------------------------------
(* The page of the client c is loaded again, between two invocations: the  *)
(* component mounts with the initial values of useState (lines 106-127)    *)
(* and the effect runs (lines 129-131).  Whether app.currentUser is still  *)
(* logged in is up to the store's client library.                          *)
Mount(c, user) ==
    /\ share[c].pc = "idle"
    /\ fetch[c].pc = "idle"
    /\ invocations' = [invocations EXCEPT !.mount = @ + 1]
    /\ saved' = [saved EXCEPT ![c] = localStorage[c]]
    /\ myCodes' = [myCodes EXCEPT ![c] = InitialMyCodes(localStorage[c])]
    /\ MyCodesEffect(c)
    /\ title' = [title EXCEPT ![c] = <<>>]
    /\ syntax' = [syntax EXCEPT ![c] = "text"]
    /\ expiry' = [expiry EXCEPT ![c] = 24]
    /\ password' = [password EXCEPT ![c] = <<>>]
    /\ isPrivate' = [isPrivate EXCEPT ![c] = FALSE]
    /\ text' = [text EXCEPT ![c] = <<>>]
    /\ isSharing' = [isSharing EXCEPT ![c] = FALSE]
    /\ generatedLink' = [generatedLink EXCEPT ![c] = <<>>]
    /\ createdCode' = [createdCode EXCEPT ![c] = <<>>]
    /\ lookupCode' = [lookupCode EXCEPT ![c] = <<>>]
    /\ lookupPassword' = [lookupPassword EXCEPT ![c] = <<>>]
    /\ fetched' = [fetched EXCEPT ![c] = Null]
    /\ isLoadingFetch' = [isLoadingFetch EXCEPT ![c] = FALSE]
    /\ isContentModalOpen' = [isContentModalOpen EXCEPT ![c] = FALSE]
    /\ currentUser' = [currentUser EXCEPT ![c] = @ /\ user]
    /\ UNCHANGED <<diagramVars, summaryVars, share, fetch, done, store, nextId, now, histVars, ticks>>

----------------------------------------------------------------------------
(* Time passes *)

TickSteps == { Ms(0, MS_PER_HOUR - 1), Ms(1, 0), Ms(1, 1) }

Tick(d) ==
    /\ ticks' = ticks + 1
    /\ now' = Plus(now, d)
    /\ UNCHANGED <<diagramVars, summaryVars, storageVars, formVars, shareVars, myCodes, fetchVars, currentUser, share, fetch, done,
                   store, nextId, histVars, invocations>>

----------------------------------------------------------------------------
(* The system *)

(* A handler is an entry point of its own.  The button that calls it is    *)
(* disabled while an earlier call of the same handler is in flight (lines  *)
(* 400 and 473), which the guards on the frames keep.  The buttons' other  *)
(* conditions (the text is not blank, the code is valid) are repeated by   *)
(* the handlers themselves (lines 147 and 223), and the handlers are       *)
(* modelled with those checks live, on every input.                        *)

Init ==
    /\ title = [c \in Clients |-> <<>>]
    /\ syntax = [c \in Clients |-> "text"]
    /\ expiry = [c \in Clients |-> 24]
    /\ password = [c \in Clients |-> <<>>]
    /\ isPrivate = [c \in Clients |-> FALSE]
    /\ text = [c \in Clients |-> <<>>]
    /\ isSharing = [c \in Clients |-> FALSE]
    /\ generatedLink = [c \in Clients |-> <<>>]
    /\ createdCode = [c \in Clients |-> <<>>]
    /\ myCodes = [c \in Clients |-> <<>>]
    /\ lookupCode = [c \in Clients |-> <<>>]
    /\ lookupPassword = [c \in Clients |-> <<>>]
    /\ fetched = [c \in Clients |-> Null]
    /\ isLoadingFetch = [c \in Clients |-> FALSE]
    /\ isContentModalOpen = [c \in Clients |-> FALSE]
    /\ currentUser = [c \in Clients |-> FALSE]
    /\ share = [c \in Clients |-> ShareIdle]
    /\ fetch = [c \in Clients |-> FetchIdle]
    /\ done = [n |-> 0, kind |-> "none", c |-> "none", f |-> DeleteIdle]
    /\ store = <<>>
    /\ nextId = 1
    /\ now = Ms(0, 1000)
    /\ shared = <<>>
    /\ retrievals = <<>>
    /\ invocations = [share |-> 0, fetch |-> 0, del |-> 0, generate |-> 0, mount |-> 0,
                      generateAI |-> 0]
    /\ ticks = 0
    /\ inputText = <<>>
    /\ summary = NoSummary
    /\ isLoading = FALSE
    /\ currentApiKeyIndex = 0
    /\ generate = GenerateIdle
    /\ localStorage = [c \in Clients |-> JsonStringify(<<>>)]
    /\ saved = [c \in Clients |-> Null]
    /\ diagram = DiagramInitial
    /\ generateAI = GenerateAIIdle
    /\ renders = <<>>
    /\ timer = Null

Invoked == invocations.share + invocations.fetch + invocations.del

(* Inputs *)

CodePicks == { <<1, 2, 27, 28>>, <<26, 36, 1, 35>> }
PoolCodes == { GenerateShortCode(CodeLen, p) : p \in CodePicks }
Salts == { "s1" }

\* a filled create form
Filled(t, hours, pw) ==
    [text |-> t, title |-> <<>>, syntax |-> "text", expiry |-> hours, password |-> pw,
     isPrivate |-> FALSE]

Forms == { Filled(<<" ", "s">>, 0, pw) : pw \in { <<>>, <<"p">>, <<"q">> } }
ShareForms == { Filled(<<" ", "s">>, 0, pw) : pw \in { <<>>, <<"p">> } }
LookupCodes == PoolCodes
LookupPasswords == { <<>>, <<"q">> }

(* The whole system: every handler of every client, any interleaving. *)
Next ==
    \/ /\ Invoked < MaxInvocations
       /\ \E c \in Clients, form \in Forms, o \in StoreOutcomes,
             picks \in CodePicks, picks2 \in CodePicks, salt \in Salts :
             ShareText(c, form, o, picks, picks2, salt)
    \/ \E c \in Clients, o \in StoreOutcomes, picks \in CodePicks, salt \in Salts :
          ShareFindOne(c, o, picks, salt)
    \/ \E c \in Clients, o \in StoreOutcomes : ShareInsertOne(c, o)
    \/ /\ Invoked < MaxInvocations
       /\ \E c \in Clients, lc \in LookupCodes, lp \in LookupPasswords,
             o \in StoreOutcomes :
             FetchByCode(c, lc, lp, o)
    \/ \E c \in Clients, o \in StoreOutcomes : FetchUpdateOne(c, o)
    \/ /\ Invoked < MaxInvocations
       /\ \E c \in Clients, k \in 1..Cardinality(PoolCodes), o \in StoreOutcomes :
             DeleteByCode(c, k, o)

Spec == Init /\ [][Next]_vars

(* The write path alone: the clients share concurrently. *)
NextShare ==
    \/ /\ invocations.share < MaxShares
       /\ \E c \in Clients, form \in ShareForms, o \in StoreOutcomes,
             picks \in CodePicks, picks2 \in CodePicks, salt \in Salts :
             ShareText(c, form, o, picks, picks2, salt)
    \/ \E c \in Clients, o \in StoreOutcomes, picks \in CodePicks, salt \in Salts :
          ShareFindOne(c, o, picks, salt)
    \/ \E c \in Clients, o \in StoreOutcomes : ShareInsertOne(c, o)

SpecShare == Init /\ [][NextShare]_vars

(* The read path: one client shares under one code and retrieves, with     *)
(* passwords that need trimming, codes that are not valid, and expiry.     *)
Reader == "c1"
ReaderPicks == { <<1, 2, 27, 28>> }
ReaderForms ==
    { Filled(<<" ", "s">>, 0, <<>>), Filled(<<" ", "s">>, 1, <<>>),
      Filled(<<" ", "s">>, 1, <<"p">>), Filled(<<" ", "s">>, 0, <<"q", " ">>) }
ReaderCodes == { <<"A", "B", "0", "1">>, <<"a", "b", "1">> }
ReaderPasswords == { <<>>, <<" ">>, <<"p">>, <<" ", "q">> }

ReaderOps == Invoked + ticks

NextRetrieval ==
    \/ /\ ReaderOps < MaxReaderOps
       /\ \E form \in ReaderForms, o \in StoreOutcomes, picks \in ReaderPicks,
             salt \in Salts :
             ShareText(Reader, form, o, picks, picks, salt)
    \/ \E o \in StoreOutcomes, picks \in ReaderPicks, salt \in Salts :
          ShareFindOne(Reader, o, picks, salt)
    \/ \E o \in StoreOutcomes : ShareInsertOne(Reader, o)
    \/ /\ ReaderOps < MaxReaderOps
       /\ \E lc \in ReaderCodes, lp \in ReaderPasswords, o \in StoreOutcomes :
             FetchByCode(Reader, lc, lp, o)
    \/ \E o \in StoreOutcomes : FetchUpdateOne(Reader, o)
    \/ /\ ReaderOps < MaxReaderOps
       /\ \E d \in TickSteps : Tick(d)

SpecRetrieval == Init /\ [][NextRetrieval]_vars

(* The stored documents: one client shares with every expiry option and    *)
(* with passwords that are empty, blank or not, under two codes, and       *)
(* retrieves and deletes.                                                  *)
EXPIRY_OPTIONS == { 1, 24, 168, 720, 0 }
StoreForms ==
    { Filled(<<" ", "s">>, hours, <<>>) : hours \in EXPIRY_OPTIONS }
      \cup { Filled(<<" ", "s">>, 0, <<" ">>), Filled(<<" ", "s">>, 1, <<"p">>) }
StoreTicks == { Ms(0, MS_PER_HOUR - 1) }
\* the draws of the candidates after the first
StoreRetryPicks == { <<26, 36, 1, 35>> }

NextStore ==
    \/ /\ ReaderOps < MaxStoreOps
       /\ \E form \in StoreForms, picks \in CodePicks, picks2 \in StoreRetryPicks,
             salt \in Salts :
             ShareText(Reader, form, "ok", picks, picks2, salt)
    \/ \E picks \in StoreRetryPicks, salt \in Salts : ShareFindOne(Reader, "ok", picks, salt)
    \/ ShareInsertOne(Reader, "ok")
    \/ /\ ReaderOps < MaxStoreOps
       /\ \E lc \in PoolCodes, lp \in { <<>>, <<"p">> } : FetchByCode(Reader, lc, lp, "ok")
    \/ FetchUpdateOne(Reader, "ok")
    \/ /\ ReaderOps < MaxStoreOps
       /\ \E k \in 1..Cardinality(PoolCodes), o \in StoreOutcomes : DeleteByCode(Reader, k, o)
    \/ /\ ReaderOps < MaxStoreOps
       /\ \E d \in StoreTicks : Tick(d)

SpecStore == Init /\ [][NextStore]_vars

(* One client with everything it can do: it shares with titles and texts  *)
(* that are empty or blank or not, retrieves, deletes its codes and loads  *)
(* the page again, and every store call can throw.                         *)
Titled(t, ttl) == [Filled(t, 0, <<>>) EXCEPT !.title = ttl]
ClientForms ==
    { Titled(<<" ", "s">>, <<>>), Titled(<<" ", "s">>, <<" ">>),
      Titled(<<" ", "s">>, <<" ", "t", " ">>), Titled(<<" ">>, <<>>),
      Titled(<<>>, <<"t">>) }
ClientCodes == { <<"z", "9", "a", "8">>, <<"a", "b", "1">> }
ClientPasswords == { <<>>, <<"p">> }

ClientOps == Invoked + invocations.mount

NextClient ==
    \/ /\ ClientOps < MaxClientOps
       /\ \E form \in ClientForms, o \in StoreOutcomes, picks \in CodePicks,
             picks2 \in StoreRetryPicks, salt \in Salts :
             ShareText(Reader, form, o, picks, picks2, salt)
    \/ \E o \in StoreOutcomes, picks \in StoreRetryPicks, salt \in Salts :
          ShareFindOne(Reader, o, picks, salt)
    \/ \E o \in StoreOutcomes : ShareInsertOne(Reader, o)
    \/ /\ ClientOps < MaxClientOps
       /\ \E lc \in ClientCodes, lp \in ClientPasswords, o \in StoreOutcomes :
             FetchByCode(Reader, lc, lp, o)
    \/ \E o \in StoreOutcomes : FetchUpdateOne(Reader, o)
    \/ /\ ClientOps < MaxClientOps
       /\ \E k \in 1..Cardinality(PoolCodes), o \in StoreOutcomes : DeleteByCode(Reader, k, o)
    \/ /\ ClientOps < MaxClientOps
       /\ \E user \in BOOLEAN : Mount(Reader, user)

SpecClient == Init /\ [][NextClient]_vars

(* The two handlers that set a busy flag, on every path they have: one     *)
(* client shares under one code (so that a second share finds all its      *)
(* candidates taken) and retrieves, with and without password, after the   *)
(* expiry or before it, and every store call can throw.                    *)
HandlerForms == { Filled(<<" ", "s">>, 0, <<>>), Filled(<<" ", "s">>, 1, <<"p">>), Filled(<<" ">>, 0, <<>>) }
HandlerCodes == { <<"a", "b", "0", "1">>, <<"a", "b", "1">> }
HandlerPasswords == { <<>>, <<"p">> }
HandlerTicks == { Ms(1, 1) }

NextHandlers ==
    \/ /\ ReaderOps < MaxHandlerOps
       /\ \E form \in HandlerForms, o \in StoreOutcomes, picks \in ReaderPicks,
             salt \in Salts :
             ShareText(Reader, form, o, picks, picks, salt)
    \/ \E o \in StoreOutcomes, picks \in ReaderPicks, salt \in Salts :
          ShareFindOne(Reader, o, picks, salt)
    \/ \E o \in StoreOutcomes : ShareInsertOne(Reader, o)
    \/ /\ ReaderOps < MaxHandlerOps
       /\ \E lc \in HandlerCodes, lp \in HandlerPasswords, o \in StoreOutcomes :
             FetchByCode(Reader, lc, lp, o)
    \/ \E o \in StoreOutcomes : FetchUpdateOne(Reader, o)
    \/ /\ ReaderOps < MaxHandlerOps
       /\ \E d \in HandlerTicks : Tick(d)

\* every store call that is awaited returns or throws in the end
SpecHandlersFair ==
    /\ Init /\ [][NextHandlers]_vars
    /\ WF_vars(\E o \in StoreOutcomes, picks \in ReaderPicks, salt \in Salts :
                  ShareFindOne(Reader, o, picks, salt))
    /\ WF_vars(\E o \in StoreOutcomes : ShareInsertOne(Reader, o))
    /\ WF_vars(\E o \in StoreOutcomes : FetchUpdateOne(Reader, o))

(* Shares that never overlap: an invocation of shareText begins only when  *)
(* no invocation of any client is in flight.  Retrievals and deletions of  *)
(* both clients go on in between.                                          *)
NoShareInFlight == \A c \in Clients : share[c].pc = "idle"
SerialForms == { Filled(<<" ", "s">>, 0, <<>>) }

NextSerial ==
    \/ /\ Invoked < MaxSerialOps
       /\ NoShareInFlight
       /\ \E c \in Clients, form \in SerialForms, o \in StoreOutcomes,
             picks \in CodePicks, picks2 \in CodePicks, salt \in Salts :
             ShareText(c, form, o, picks, picks2, salt)
    \/ \E c \in Clients, o \in StoreOutcomes, picks \in CodePicks, salt \in Salts :
          ShareFindOne(c, o, picks, salt)
    \/ \E c \in Clients, o \in StoreOutcomes : ShareInsertOne(c, o)
    \/ /\ Invoked < MaxSerialOps
       /\ \E c \in Clients, lc \in PoolCodes : FetchByCode(c, lc, <<>>, "ok")
    \/ \E c \in Clients : FetchUpdateOne(c, "ok")
    \/ /\ Invoked < MaxSerialOps
       /\ \E c \in Clients, k \in 1..Cardinality(PoolCodes), o \in StoreOutcomes :
             DeleteByCode(c, k, o)

SpecSerial == Init /\ [][NextSerial]_vars

(* The diagram page alone. *)
Descriptions == { <<" ">>, <<"d">> }
ResponseTexts ==
    { << OpenFence, "\n", "g", "\n", CloseFence >>, << "g", " " >>,
      << OpenFence, "\n", CloseFence >>, << " " >> }
Answers ==
    { Answer("rejected", <<>>), Answer("notOk", <<>>), Answer("ok", <<>>) }
      \cup { Answer("ok", txt) : txt \in ResponseTexts }

NextDiagram ==
    \/ /\ invocations.generateAI < MaxDiagrams
       /\ \E txt \in Descriptions : GenerateWithAI(txt)
    \/ \E response \in Answers : AIResponse(response)
    \/ RenderTimeout
    \/ \E k \in 1..(2 * MaxDiagrams), threw \in BOOLEAN : RenderEnds(k, threw)

SpecDiagram == Init /\ [][NextDiagram]_vars

(* The summarizer page alone. *)
SummaryTexts == { <<>>, <<" ">>, <<"t">> }

NextSummary ==
    \/ /\ invocations.generate < MaxGenerations
       /\ \E txt \in SummaryTexts : GenerateSummary(txt)
    \/ \E response \in Responses : Response(response)

SpecSummary == Init /\ [][NextSummary]_vars

\* every request that was sent is answered or rejected in the end
SpecSummaryFair == SpecSummary /\ WF_vars(\E response \in Responses : Response(response))

----------------------------------------------------------------------------
(* Properties of fetchByCode *)

Last(seq) == seq[Len(seq)]
Has(seq, x) == \E k \in 1..Len(seq) : seq[k] = x

\* the retrieval attempts on record: those in flight and the one that ended last
FetchFrames ==
    { fetch[c] : c \in Clients } \cup (IF done.kind = "fetch" THEN { done.f } ELSE {})

FetchEnded == done.kind = "fetch"

StepOrder == << "validate", "logIn", "findOne", "expiry", "decrypt", "updateOne" >>
Rank(step) == CHOOSE k \in 1..Len(StepOrder) : StepOrder[k] = step
InOrder(steps) ==
    \A i, j \in 1..Len(steps) : i < j => Rank(steps[i]) < Rank(steps[j])

\* the steps at which an attempt can end with the given notification
FailsAt(toast) ==
    IF toast = InvalidCodeToast THEN { "validate" }
    ELSE IF toast = NotFoundToast THEN { "findOne" }
    ELSE IF toast \in { ExpiredToast, PasswordRequiredToast } THEN { "expiry" }
    ELSE IF toast = InvalidPasswordToast THEN { "decrypt" }
    ELSE { "logIn", "findOne", "updateOne" }

(* C1: the steps of a retrieval attempt are taken in the order validate,   *)
(* (log in,) findOne, expiry check, decrypt, updateOne, each at most once; *)
(* an attempt shows at most one notification, a failing attempt exactly    *)
(* one, and its last step is the step the notification belongs to; an     *)
(* attempt whose document has expired reports Expired, whether or not the  *)
(* document is protected and a password was given.                         *)
FetchOrder ==
    \A f \in FetchFrames :
        /\ InOrder(f.steps)
        /\ Len(f.toasts) <= 1
        /\ f.pc # "idle" => f.toasts = <<>>
        /\ f.toasts # <<>> => Last(f.steps) \in FailsAt(f.toasts[1])
        /\ (f.pc = "idle" /\ f.steps # <<>> /\ Last(f.steps) # "updateOne")
              => Len(f.toasts) = 1
        /\ (f.doc # Null /\ IsExpired(f.doc, f.now)) => f.toasts = << ExpiredToast >>

FetchOrderWitness ==
    /\ FetchEnded
    /\ done.f.doc # Null
    /\ IsExpired(done.f.doc, done.f.now)
    /\ Truthy(done.f.doc.passwordTag)
    /\ ~Truthy(done.f.pass)
    /\ done.f.steps = << "validate", "findOne", "expiry" >>
    /\ done.f.toasts = << ExpiredToast >>

\* findOne returned to the attempt
FindOneReturned(f) ==
    /\ Has(f.steps, "findOne")
    /\ ~(Last(f.steps) = "findOne" /\ f.toasts = << FetchFailedToast >>)

\* the password the snippet d was created with, as both sides use it
CreatedWith(d) == Trim(shared[d._id].password)

\* an ended attempt with a password, under a code whose snippets are all
\* protected by other passwords
WrongPassword(f) ==
    /\ f.pc = "idle"
    /\ f.pass # <<>>
    /\ FindOneReturned(f)
    /\ f.seen # <<>>
    /\ \A k \in 1..Len(f.seen) :
          Truthy(f.seen[k].passwordTag) /\ CreatedWith(f.seen[k]) # f.pass

(* C2, as claimed: a retrieval with a non-empty password other than the    *)
(* one the snippet was created with ends with 'Invalid password' and no    *)
(* content.                                                                *)
WrongPasswordIsInvalidPassword ==
    (FetchEnded /\ WrongPassword(done.f))
        => /\ done.f.toasts = << InvalidPasswordToast >>
           /\ done.f.contentOut = Null

(* C2, as the code has it: such a retrieval finds no document, ends with   *)
(* 'Not found or password required/invalid' without a decryption or a      *)
(* views increment, and has no content.                                    *)
WrongPasswordIsNotFound ==
    (FetchEnded /\ WrongPassword(done.f))
        => /\ done.f.toasts = << NotFoundToast >>
           /\ done.f.doc = Null
           /\ done.f.contentOut = Null
           /\ ~Has(done.f.steps, "decrypt")
           /\ ~Has(done.f.steps, "updateOne")

WrongPasswordWitness ==
    /\ FetchEnded
    /\ WrongPassword(done.f)
    /\ done.f.pass = << "p" >>
    /\ done.f.toasts = << NotFoundToast >>

\* an ended attempt with a password that no snippet under the code was
\* created with: there is no snippet under it, or only protected ones
NoMatch(f) ==
    /\ f.pc = "idle"
    /\ f.pass # <<>>
    /\ FindOneReturned(f)
    /\ \A k \in 1..Len(f.seen) :
          Truthy(f.seen[k].passwordTag) /\ CreatedWith(f.seen[k]) # f.pass

\* what an attempt lets its caller observe
Observation(f) ==
    [ toasts |-> f.toasts,
      storeOps |-> SelectSeq(f.steps, LAMBDA x : x \in { "findOne", "updateOne" }),
      doc |-> f.doc,
      contentOut |-> f.contentOut ]

NotFoundObservation ==
    [ toasts |-> << NotFoundToast >>, storeOps |-> << "findOne" >>,
      doc |-> Null, contentOut |-> Null ]

NoMatchStep ==
    (done'.n # done.n /\ done'.kind = "fetch" /\ NoMatch(done'.f))
        => /\ Observation(done'.f) = NotFoundObservation
           /\ store' = store
           /\ fetched'[done'.c] = Null
           /\ isLoadingFetch'[done'.c] = FALSE
           /\ lookupCode'[done'.c] = done'.f.rawCode
           /\ isContentModalOpen' = isContentModalOpen

(* C3: a retrieval with a non-empty password that matches no snippet under *)
(* the code has one outcome, whether snippets protected by other passwords *)
(* exist under the code or none does: the not-found notification, findOne  *)
(* as the only store operation, the store (and every views field) as it    *)
(* was, and the client with no fetched snippet and the lookup form as      *)
(* entered.                                                                *)
NotFoundOrUnauthorized == [][NoMatchStep]_vars

NotFoundOrUnauthorizedWitness ==
    /\ FetchEnded
    /\ NoMatch(done.f)
    /\ Len(done.f.seen) = 1
    /\ Observation(done.f) = NotFoundObservation
    /\ fetched[done.c] = Null
    /\ \A k \in 1..Len(store) : store[k].views = 0

RoundTripTexts == { << "s" >>, << " ", "s" >> }
RoundTripPasswords == { << "p" >>, << "q", " " >> }

(* C4: a protected snippet looked up with the password it was created with *)
(* (trimmed on both sides) and not expired is decrypted to exactly the     *)
(* text that was shared, and that text is what the client then holds; and  *)
(* decryptContent(encryptContent(T, P), P) gives T.                        *)
RoundTrip ==
    /\ \A T \in RoundTripTexts, P \in RoundTripPasswords, salt \in Salts :
          DecryptContent(EncryptContent(T, P, salt), P) = { [threw |-> FALSE, text |-> T] }
    /\ \A f \in FetchFrames :
          (/\ f.doc # Null
           /\ Truthy(f.doc.passwordTag)
           /\ ~IsExpired(f.doc, f.now)
           /\ f.pass = CreatedWith(f.doc))
             => /\ Has(f.steps, "decrypt")
                /\ f.contentOut = Str(shared[f.doc._id].text)
                /\ f.toasts \in { <<>>, << FetchFailedToast >> }
    /\ \A c \in Clients :
          (fetched[c] # Null /\ Truthy(fetched[c].passwordTag))
             => fetched[c].content = Str(shared[fetched[c]._id].text)

RoundTripWitness ==
    /\ FetchEnded
    /\ done.f.toasts = <<>>
    /\ Truthy(done.f.doc.passwordTag)
    /\ shared[done.f.doc._id].password # CreatedWith(done.f.doc)
    /\ fetched[done.c] # Null
    /\ fetched[done.c].content = Str(<< " ", "s" >>)

\* /^[a-z0-9]{4}$/
MatchesPattern(code) ==
    /\ Len(code) = CodeLen
    /\ \A k \in 1..Len(code) : \E j \in 1..Len(ALPHABET) : ALPHABET[j] = code[k]

(* C8: a retrieval whose trimmed code does not match ^[a-z0-9]{4}$ ends    *)
(* with the invalid-code notification after the validation alone: no log   *)
(* in, no findOne, no updateOne; a 3-character code and a code with        *)
(* uppercase letters are not valid.                                        *)
InvalidCode ==
    /\ ~IsValidShortCode(<< "a", "b", "1" >>)
    /\ ~IsValidShortCode(<< "A", "B", "0", "1" >>)
    /\ \A code \in PoolCodes : IsValidShortCode(code)
    /\ \A f \in FetchFrames :
          (f.steps # <<>> /\ ~MatchesPattern(f.code))
             => /\ f.pc = "idle"
                /\ f.steps = << "validate" >>
                /\ f.toasts = << InvalidCodeToast >>
                /\ f.doc = Null

InvalidCodeWitness ==
    /\ FetchEnded
    /\ done.f.code = << "a", "b", "1" >>
    /\ done.f.toasts = << InvalidCodeToast >>
    /\ done.f.steps = << "validate" >>
    /\ ~currentUser[done.c]

----------------------------------------------------------------------------
(* Properties of shareText *)

\* the share invocations on record: those in flight and the one that ended last
ShareFrames ==
    { share[c] : c \in Clients } \cup (IF done.kind = "share" THEN { done.f } ELSE {})

ShareEnded == done.kind = "share"

AllocationFailedToast == "Failed to allocate unique code, please try again"
SharedToast == "Text shared successfully!"

\* the number of snippets inserted before the existence check that let the
\* snippet d through
CheckedAfter(d) == shared[d._id].checkedAt - 1

(* C5: two stored snippets have the same code only if the existence check  *)
(* of the one inserted later was answered before the other was inserted:   *)
(* the check and the insert of two invocations interleaved.  (The witness  *)
(* is a store that holds two snippets with one code.)                      *)
DuplicateCodeByInterleaving ==
    \A i, j \in 1..Len(store) :
        (i < j /\ store[i].code = store[j].code)
           => CheckedAfter(store[j]) < store[i]._id

DuplicateCodeWitness ==
    /\ Len(store) = 2
    /\ store[1].code = store[2].code
    /\ shared[store[1]._id].by # shared[store[2]._id].by
    /\ \A c \in Clients : share[c].pc = "idle" /\ Has(myCodes[c], store[1].code)

\* every candidate of the invocation was checked and found in the store
Exhausted(f) ==
    /\ Len(f.checks) = MaxAttempts
    /\ \A k \in 1..Len(f.checks) : f.checks[k].existing

ExhaustedStep ==
    (done'.n # done.n /\ done'.kind = "share" /\ Exhausted(done'.f))
        => /\ done'.f.toasts = << AllocationFailedToast >>
           /\ ~Has(done'.f.steps, "insertOne")
           /\ done'.f.doc = Null
           /\ store' = store
           /\ formVars' = formVars
           /\ myCodes' = myCodes
           /\ isSharing'[done'.c] = FALSE

(* C6: an invocation whose 5 candidates were all found in the store ends   *)
(* with the allocation-failed notification and without an insertOne; the   *)
(* step that ends it leaves the store, the form fields and myCodes as they *)
(* were and isSharing false.                                               *)
AllocationExhausted == [][ExhaustedStep]_vars

AllocationExhaustedWitness ==
    /\ ShareEnded
    /\ Exhausted(done.f)
    /\ done.f.toasts = << AllocationFailedToast >>
    /\ ~isSharing[done.c]
    /\ Truthy(Trim(text[done.c]))

Count(seq, x) == Cardinality({ k \in 1..Len(seq) : seq[k] = x })

(* C7: an invocation issues at most 5 existence checks; every check but    *)
(* its last found a document; the document it builds and inserts carries   *)
(* the code of its last check, which found none.                           *)
AllocationChecks ==
    \A f \in ShareFrames :
        /\ Count(f.steps, "findOne") <= MaxAttempts
        /\ Len(f.checks) <= Count(f.steps, "findOne")
        /\ \A k \in 1..(Len(f.checks) - 1) : f.checks[k].existing
        /\ (f.pc = "insertOne" \/ Has(f.steps, "insertOne"))
              => /\ f.doc # Null
                 /\ ~Last(f.checks).existing
                 /\ f.doc.code = Last(f.checks).code
                 /\ MatchesPattern(f.doc.code)

AllocationChecksWitness ==
    /\ ShareEnded
    /\ done.f.toasts = << SharedToast >>
    /\ Len(done.f.checks) = 3
    /\ \E k \in 1..Len(store) : store[k].code = Last(done.f.checks).code

----------------------------------------------------------------------------
(* Properties of the views counter *)

\* the views of the stored snippet with the given _id (0 if it is not stored)
ViewsOf(coll, id) ==
    IF \E k \in 1..Len(coll) : coll[k]._id = id
    THEN coll[CHOOSE k \in 1..Len(coll) : coll[k]._id = id].views
    ELSE 0

Stored(coll, id) == \E k \in 1..Len(coll) : coll[k]._id = id

FetchEnds == done'.n # done.n /\ done'.kind = "fetch"

ViewsStep ==
    /\ \A k \in 1..Len(store) :
          Stored(store', store[k]._id) => ViewsOf(store', store[k]._id) >= store[k].views
    /\ (FetchEnds /\ done'.f.toasts # <<>>)
          => \A k \in 1..Len(store) : ViewsOf(store', store[k]._id) = store[k].views
    /\ \A k \in 1..Len(store) :
          (/\ Truthy(store[k].passwordTag)
           /\ Stored(store', store[k]._id)
           /\ ViewsOf(store', store[k]._id) # store[k].views)
             => /\ FetchEnds
                /\ done'.f.doc._id = store[k]._id
                /\ Has(done'.f.steps, "decrypt")

(* C9: no step lowers the views of a stored snippet; a step that ends a    *)
(* retrieval in a failure changes no views; and a step that changes the    *)
(* views of a protected snippet ends a retrieval that decrypted the        *)
(* content of that snippet.                                                *)
ViewsOnlyAfterDecrypt == [][ViewsStep]_vars

(* C10: the views of every stored snippet equal the number of retrievals   *)
(* that returned the content of that snippet.                              *)
ViewsCountRetrievals ==
    \A k \in 1..Len(store) : store[k].views = retrievals[store[k]._id]

----------------------------------------------------------------------------
(* Properties of the expiry check and of the plain and protected read paths *)

OneMs == Ms(0, 1)

(* C12: an attempt that found a snippet reports Expired exactly when the   *)
(* snippet's expiry is not 0 and is less than the time the attempt         *)
(* sampled; an expiry equal to that time, or after it, or 0, is not        *)
(* Expired; an Expired attempt has no content and increments no views.     *)
ExpiryBoundary ==
    \A f \in FetchFrames :
        f.doc # Null =>
            /\ (f.toasts = << ExpiredToast >>)
                  <=> (f.doc.expiry # Zero /\ Less(f.doc.expiry, f.now))
            /\ f.doc.expiry = f.now => f.toasts # << ExpiredToast >>
            /\ f.doc.expiry = Zero => f.toasts # << ExpiredToast >>
            /\ f.toasts = << ExpiredToast >>
                  => /\ f.contentOut = Null
                     /\ ~Has(f.steps, "decrypt")
                     /\ ~Has(f.steps, "updateOne")

ExpiryBoundaryWitness ==
    /\ FetchEnded
    /\ done.f.doc # Null
    /\ Plus(done.f.doc.expiry, OneMs) = done.f.now
    /\ done.f.toasts = << ExpiredToast >>
    /\ fetched[done.c] = Null

\* an attempt that found an unprotected snippet that has not expired
PlainFound(f) ==
    /\ f.doc # Null
    /\ ~Truthy(f.doc.passwordTag)
    /\ ~(f.doc.expiry # Zero /\ Less(f.doc.expiry, f.now))

PlainStep ==
    (FetchEnds /\ PlainFound(done'.f))
        => /\ done'.f.pass = <<>>
           /\ done'.f.contentOut = done'.f.doc.content
           /\ done'.f.contentOut = Str(shared[done'.f.doc._id].text)
           /\ done'.f.toasts \in { <<>>, << FetchFailedToast >> }
           /\ done'.f.toasts = <<>>
                 => /\ fetched'[done'.c] # Null
                    /\ fetched'[done'.c].content = Str(shared[done'.f.doc._id].text)
                    /\ ViewsOf(store', done'.f.doc._id) = ViewsOf(store, done'.f.doc._id) + 1

(* C13: a retrieval without password that finds an unprotected snippet     *)
(* that has not expired has the text as it was entered for its content,    *)
(* and, unless updateOne throws, ends with that content handed to the      *)
(* client and the stored views of the snippet one higher (0 to 1 for the   *)
(* first retrieval).                                                       *)
PlainRetrieval == [][PlainStep]_vars

PlainRetrievalWitness ==
    /\ FetchEnded
    /\ PlainFound(done.f)
    /\ done.f.toasts = <<>>
    /\ done.f.doc.expiry = Zero
    /\ done.f.doc.views = 0
    /\ ViewsOf(store, done.f.doc._id) = 1
    /\ fetched[done.c].content = Str(<< " ", "s" >>)

\* an attempt without password that found a protected snippet that has not expired
ProtectedFoundWithoutPassword(f) ==
    /\ f.doc # Null
    /\ Truthy(f.doc.passwordTag)
    /\ ~(f.doc.expiry # Zero /\ Less(f.doc.expiry, f.now))
    /\ f.pass = <<>>

PasswordRequiredStep ==
    (FetchEnds /\ ProtectedFoundWithoutPassword(done'.f))
        => /\ done'.f.toasts = << PasswordRequiredToast >>
           /\ ~Has(done'.f.steps, "decrypt")
           /\ ~Has(done'.f.steps, "updateOne")
           /\ done'.f.contentOut = Null
           /\ fetched'[done'.c] = Null
           /\ store' = store

(* C14: a retrieval with an empty or white-space password that finds a     *)
(* protected snippet that has not expired ends with 'Password required':   *)
(* decryptContent is not called, the client gets no content, and the store *)
(* (every views field) is as it was.                                       *)
PasswordRequired == [][PasswordRequiredStep]_vars

PasswordRequiredWitness ==
    /\ FetchEnded
    /\ ProtectedFoundWithoutPassword(done.f)
    /\ lookupPassword[done.c] = << " " >>
    /\ done.f.toasts = << PasswordRequiredToast >>
    /\ \A k \in 1..Len(store) : store[k].views = 0

----------------------------------------------------------------------------
(* Properties of a share whose store call throws *)

ShareFailedToast == "Failed to share"

ShareEnds == done'.n # done.n /\ done'.kind = "share"

\* an ended invocation one of whose store calls threw: the log in, a findOne
\* (logged, but without an answer among the checks), or the insertOne
Threw(f) ==
    \/ f.toasts = << ShareFailedToast >>
    \/ (f.steps # <<>> /\ Last(f.steps) = "logIn")
    \/ Count(f.steps, "findOne") > Len(f.checks)

ShareThrowsStep ==
    (ShareEnds /\ Threw(done'.f))
        => LET c == done'.c
           IN /\ done'.f.toasts = << ShareFailedToast >>
              /\ Last(done'.f.steps) \in { "logIn", "findOne", "insertOne" }
              /\ Count(done'.f.steps, "insertOne") <= 1
              /\ store' = store
              /\ isSharing'[c] = FALSE
              /\ share'[c] = ShareIdle
              /\ Truthy(Trim(text'[c]))
              /\ createdCode'[c] = createdCode[c]
              /\ generatedLink'[c] = generatedLink[c]
              /\ myCodes'[c] = myCodes[c]
              /\ share[c].pc # "idle"
                    => text'[c] = text[c] /\ password'[c] = password[c]

\* while an invocation is in flight, only its successful end changes the
\* text, the password, the created code and myCodes of its client
ShareInFlightStep ==
    \A c \in Clients :
        (share[c].pc # "idle"
           /\ ~(ShareEnds /\ done'.c = c /\ done'.f.toasts = << SharedToast >>))
          => /\ text'[c] = text[c]
             /\ password'[c] = password[c]
             /\ createdCode'[c] = createdCode[c]
             /\ myCodes'[c] = myCodes[c]

(* C17: an invocation of shareText one of whose store calls throws (the    *)
(* log in, an existence check or the insert) shows the one notification    *)
(* 'Failed to share', has the throwing call as its last store operation    *)
(* (at most one insertOne), leaves the store, the text, the password, the  *)
(* created code and myCodes as they were, and ends with isSharing false.   *)
ShareStoreFailure == [][ShareThrowsStep /\ ShareInFlightStep]_vars

ShareStoreFailureWitness ==
    /\ ShareEnded
    /\ done.f.toasts = << ShareFailedToast >>
    /\ Last(done.f.steps) = "insertOne"
    /\ Len(done.f.checks) = 2
    /\ ~isSharing[done.c]
    /\ Truthy(Trim(text[done.c]))
    /\ myCodes[done.c] = <<>>

----------------------------------------------------------------------------
(* Properties of the stored documents *)

\* what was entered for the stored snippet d
Entered(d) == shared[d._id]

(* C11: for every stored snippet, the content is a ciphertext exactly when *)
(* passwordTag is not null, and passwordTag is not null exactly when the   *)
(* password entered is not empty after trimming; a ciphertext is that of   *)
(* the text entered under the trimmed password, a plain content is the     *)
(* text entered.  This holds in every state, whatever retrievals and       *)
(* deletions follow the insert.                                            *)
CiphertextIffTag ==
    \A k \in 1..Len(store) :
        LET d == store[k]
        IN /\ d.content.aes <=> d.passwordTag # Null
           /\ d.passwordTag # Null <=> Trim(Entered(d).password) # <<>>
           /\ d.content.text = Entered(d).text
           /\ d.content.aes => d.content.key = Trim(Entered(d).password)
           /\ d.passwordTag # Null
                 => d.passwordTag = Sha256Base64Url(d.code \o <<":">> \o Trim(Entered(d).password))

CiphertextIffTagWitness ==
    /\ Len(store) = 2
    /\ store[1].content.aes
    /\ store[1].views = 1
    /\ Entered(store[2]).password = << " " >>
    /\ ~store[2].content.aes

\* draws at the ends of the two character ranges of the alphabet
EdgePicks == [1..CodeLen -> {1, 36}] \cup { <<26, 27, 26, 27>> } \cup CodePicks

(* C18: every stored snippet has a code of length 4 over a-z and 0-9, and  *)
(* isValidShortCode accepts every output of generateShortCode(4), also the *)
(* candidate an invocation in flight holds.                                *)
StoredCodeValid ==
    /\ \A picks \in EdgePicks :
          /\ Len(GenerateShortCode(CodeLen, picks)) = 4
          /\ IsValidShortCode(GenerateShortCode(CodeLen, picks))
    /\ \A k \in 1..Len(store) :
          /\ Len(store[k].code) = 4
          /\ MatchesPattern(store[k].code)
          /\ IsValidShortCode(store[k].code)
    /\ \A f \in ShareFrames : f.code # Null => IsValidShortCode(f.code)

StoredCodeValidWitness ==
    /\ Len(store) = 2
    /\ store[1].code = << "z", "9", "a", "8" >>
    /\ store[2].code = << "a", "b", "0", "1" >>

(* C19: a document built by shareText has views 0; a stored snippet has    *)
(* expiry 0 if 'Never' (0 hours) was selected, and otherwise createdAt     *)
(* plus the selected hours (1, 24, 168 or 720) times 3600000 ms, which is  *)
(* after createdAt.                                                        *)
StoredExpiry ==
    /\ \A f \in ShareFrames : f.doc # Null => f.doc.views = 0
    /\ \A k \in 1..Len(store) :
          LET d == store[k]
              hours == Entered(d).hours
          IN /\ hours \in { 0, 1, 24, 168, 720 }
             /\ hours = 0 => d.expiry = Zero
             /\ hours # 0 => /\ d.expiry.h = d.createdAt.h + hours
                             /\ d.expiry.r = d.createdAt.r
             /\ d.expiry = Zero \/ Less(d.createdAt, d.expiry)

StoredExpiryWitness ==
    /\ Len(store) = 2
    /\ Entered(store[1]).hours = 720
    /\ store[1].createdAt = Ms(1, 999)
    /\ store[1].expiry = Ms(721, 999)
    /\ Entered(store[2]).hours = 0
    /\ store[2].expiry = Zero

\* the stored snippet with the given _id
DocOf(coll, id) == coll[CHOOSE k \in 1..Len(coll) : coll[k]._id = id]

DeleteEnds == done'.n # done.n /\ done'.kind = "delete"

FrameStep ==
    /\ \A k \in 1..Len(store) :
          LET d == store[k]
          IN IF Stored(store', d._id)
             THEN /\ [DocOf(store', d._id) EXCEPT !.views = d.views] = d
                  /\ DocOf(store', d._id).views # d.views => FetchEnds
                  /\ DeleteEnds => DocOf(store', d._id) = d
             ELSE DeleteEnds /\ d.code = done'.f.code
    /\ DeleteEnds => Len(store') >= Len(store) - 1

(* C20: no step changes the code, content, title, syntax, expiry,          *)
(* isPrivate, passwordTag or createdAt of a stored snippet; only a step    *)
(* that ends a retrieval changes views; a snippet leaves the store only by *)
(* deleteByCode(c) with c its code, which removes at most one snippet and  *)
(* changes no other.                                                       *)
StoredFrame == [][FrameStep]_vars

StoredFrameWitness ==
    /\ done.kind = "delete"
    /\ done.f.toasts = << "Deleted" >>
    /\ Len(store) = 1
    /\ store[1]._id = 1
    /\ store[1].code # done.f.code
    /\ nextId = 3

TagPasswords == { <<"p">>, <<"q">>, <<"p", "q">>, <<"q", " ">>, <<":", "p">> }

(* C22: for a fixed code, derivePasswordTag gives two passwords the same   *)
(* tag exactly when they are the same password (SHA-256 taken as free of   *)
(* collisions); a retrieval sends a tag exactly when its trimmed password  *)
(* is not empty, the tag of that password and its code; and the tag sent   *)
(* equals the passwordTag of a snippet under the code exactly when the     *)
(* trimmed lookup password is the trimmed password the snippet was created *)
(* with.                                                                   *)
TagMatchesPassword ==
    /\ \A code \in PoolCodes, p1 \in TagPasswords, p2 \in TagPasswords :
          DerivePasswordTag(p1, code) = DerivePasswordTag(p2, code) <=> p1 = p2
    /\ \A f \in FetchFrames :
          /\ Has(f.steps, "findOne") => (f.filter.hasTag <=> f.pass # <<>>)
          /\ f.filter.hasTag =>
                /\ f.filter.passwordTag = DerivePasswordTag(f.pass, f.code)
                /\ \A k \in 1..Len(f.seen) :
                      f.filter.passwordTag = f.seen[k].passwordTag
                         <=> f.pass = CreatedWith(f.seen[k])

TagMatchesPasswordWitness ==
    /\ FetchEnded
    /\ done.f.filter.hasTag
    /\ done.f.pass = << "q" >>
    /\ Len(done.f.seen) = 1
    /\ Entered(done.f.seen[1]).password = << "q", " " >>
    /\ done.f.filter.passwordTag = done.f.seen[1].passwordTag
    /\ done.f.doc = done.f.seen[1]

\* an attempt whose findOne returned while every snippet under its code was
\* unprotected and not expired
OnlyPlainUnderCode(f) ==
    /\ FindOneReturned(f)
    /\ f.seen # <<>>
    /\ \A k \in 1..Len(f.seen) :
          ~Truthy(f.seen[k].passwordTag) /\ ~IsExpired(f.seen[k], f.now)

(* C24, as claimed: a retrieval under the code of an unprotected snippet   *)
(* that has not expired finds the snippet and is not answered 'not found', *)
(* whether or not a password was entered.                                  *)
PlainWithOrWithoutPassword ==
    \A f \in FetchFrames :
        OnlyPlainUnderCode(f)
           => /\ f.doc # Null
              /\ f.doc.code = f.code
              /\ f.toasts # << NotFoundToast >>

(* C25: when the invocations of shareText never overlap, and all snippets  *)
(* are inserted by shareText, no two stored snippets have the same code,   *)
(* whatever retrievals and deletions go on; and no invocation begins while *)
(* another is in flight.                                                   *)
UniqueCodes ==
    /\ Cardinality({ c \in Clients : share[c].pc # "idle" }) <= 1
    /\ \A i, j \in 1..Len(store) : store[i].code = store[j].code => i = j

UniqueCodesWitness ==
    /\ Len(store) = 2
    /\ store[1].code # store[2].code
    /\ shared[store[1]._id].by # shared[store[2]._id].by
    /\ ShareEnded
    /\ done.f.toasts = << SharedToast >>
    /\ Len(done.f.checks) = 2
    /\ done.f.checks[1].code = store[1].code

----------------------------------------------------------------------------
(* Properties of the list of the client's codes *)

Mounts == invocations'.mount # invocations.mount

\* in every state (every effect has run), the item holds the list in memory
Persisted ==
    /\ InitialMyCodes(Null) = <<>>
    /\ (Invoked = 0 /\ invocations.mount = 0)
          => \A c \in Clients : saved[c] = Null /\ myCodes[c] = <<>>
    /\ \A c \in Clients :
          /\ localStorage[c] = JsonStringify(myCodes[c])
          /\ JsonParse(localStorage[c]) = myCodes[c]

\* a client that mounts reads the item as it was, and has the list that was
\* in memory, and so persisted, before
MountStep ==
    Mounts => \A c \in Clients :
                 /\ myCodes'[c] = myCodes[c]
                 /\ saved'[c] # saved[c] => saved'[c] = JsonStringify(myCodes[c])

(* C23: in every state the persisted item 'myCodes' is the JSON text of    *)
(* the list in memory and parses back to it (the effect of every change    *)
(* has run); a client that mounts starts with the list that was persisted  *)
(* last, and the client that first mounts, with nothing persisted, starts  *)
(* with the empty list.                                                    *)
MyCodesPersisted == []Persisted /\ [][MountStep]_vars

MyCodesPersistedWitness ==
    /\ invocations.mount = 1
    /\ Len(myCodes[Reader]) = 2
    /\ myCodes[Reader][1] # myCodes[Reader][2]
    /\ saved[Reader] = JsonStringify(myCodes[Reader])
    /\ localStorage[Reader] = saved[Reader]

\* the list without the code
Without(seq, code) == SelectSeq(seq, LAMBDA x : x # code)

\* the step ends an invocation of shareText of c whose insertOne returned
Inserted(c) ==
    /\ ShareEnds
    /\ done'.c = c
    /\ done'.f.toasts = << SharedToast >>
    /\ Last(done'.f.steps) = "insertOne"
    /\ Len(store') = Len(store) + 1
    /\ Last(store').code = done'.f.code

\* the step ends an invocation of deleteByCode of c whose deleteOne returned
Deleted(c) ==
    /\ DeleteEnds
    /\ done'.c = c
    /\ done'.f.toasts = << "Deleted" >>
    /\ Last(done'.f.steps) = "deleteOne"
    /\ store' = DeleteOne(store, done'.f.code)

MyCodesStep ==
    \A c \in Clients :
        /\ Inserted(c) => /\ myCodes'[c] = << done'.f.code >> \o Without(myCodes[c], done'.f.code)
                          /\ myCodes'[c][1] = done'.f.code
        /\ Deleted(c) => myCodes'[c] = Without(myCodes[c], done'.f.code)
        /\ (~Inserted(c) /\ ~Deleted(c)) => myCodes'[c] = myCodes[c]
        /\ (ShareEnds /\ done'.f.toasts # << SharedToast >>)
              => myCodes' = myCodes /\ store' = store
        /\ (DeleteEnds /\ done'.f.toasts # << "Deleted" >>)
              => myCodes' = myCodes /\ store' = store
        /\ \A i, j \in 1..Len(myCodes'[c]) : myCodes'[c][i] = myCodes'[c][j] => i = j

(* C27: a step changes myCodes of a client only by ending a shareText of   *)
(* that client whose insertOne returned, which puts the code at the head   *)
(* of the list, or by ending a deleteByCode(c) of that client whose        *)
(* deleteOne returned, which takes c out; an invocation whose store call   *)
(* throws, or that ends before the insert, leaves myCodes and the store as *)
(* they were; and no code is in the list twice.                            *)
MyCodesOnSuccess == [][MyCodesStep]_vars

MyCodesOnSuccessWitness ==
    /\ done.kind = "delete"
    /\ done.f.toasts = << "Delete failed (check rules)" >>
    /\ Last(done.f.steps) = "deleteOne"
    /\ Len(store) = 2
    /\ myCodes[Reader] = << store[2].code, store[1].code >>
    /\ done.f.code = store[2].code

\* the flags are set exactly while an invocation is between two awaits
BusyFlags ==
    \A c \in Clients :
        /\ isSharing[c] <=> share[c].pc # "idle"
        /\ isLoadingFetch[c] <=> fetch[c].pc # "idle"

\* an invocation that ends, on whatever path, ends with its flag false
EndStep ==
    /\ ShareEnds => ~isSharing'[done'.c] /\ share'[done'.c].pc = "idle"
    /\ FetchEnds => ~isLoadingFetch'[done'.c] /\ fetch'[done'.c].pc = "idle"

(* C28: as every awaited store call returns or throws in the end, every    *)
(* invocation of shareText ends, with isSharing false, and every           *)
(* invocation of fetchByCode ends, with isLoadingFetch false, on every     *)
(* path; the flags are true only while an invocation is in flight.         *)
HandlersEnd ==
    /\ []BusyFlags
    /\ [][EndStep]_vars
    /\ \A c \in Clients :
          /\ (share[c].pc # "idle") ~> (share[c].pc = "idle" /\ ~isSharing[c])
          /\ (fetch[c].pc # "idle") ~> (fetch[c].pc = "idle" /\ ~isLoadingFetch[c])

HandlersEndWitness ==
    /\ done.kind = "fetch"
    /\ done.f.toasts = << FetchFailedToast >>
    /\ Last(done.f.steps) = "updateOne"
    /\ ~isLoadingFetch[done.c]
    /\ ~isSharing[done.c]
    /\ Len(store) = 1
    /\ store[1].views = 0

EnterTextToast == "Please enter some text to share"

\* the step is an invocation of shareText of the client c: it ends at once
\* or goes to its first await
Shares(c) ==
    /\ invocations'.share # invocations.share
    /\ (ShareEnds /\ done'.c = c) \/ (share[c].pc = "idle" /\ share'[c].pc # "idle")

BlankTextStep ==
    \A c \in Clients :
        /\ (Shares(c) /\ Trim(text'[c]) = <<>>)
              => /\ ShareEnds
                 /\ done'.f.toasts = << EnterTextToast >>
                 /\ done'.f.steps = <<>>
                 /\ share' = share
                 /\ isSharing' = isSharing
                 /\ ~isSharing'[c]
                 /\ <<store, nextId, currentUser>>' = <<store, nextId, currentUser>>
                 /\ <<shareVars, myCodes, fetchVars, localStorage>>'
                       = <<shareVars, myCodes, fetchVars, localStorage>>
        /\ (ShareEnds /\ done'.c = c /\ done'.f.toasts = << EnterTextToast >>)
              => Trim(text'[c]) = <<>>

(* C29: an invocation of shareText with a text that is empty or white      *)
(* space only ends at once with the notification 'Please enter some text   *)
(* to share': it issues no store call and no log in, never sets isSharing, *)
(* and leaves the store, the created code and link, myCodes and its        *)
(* persisted item, and the retrieve side of the client as they were; and   *)
(* no other invocation shows that notification.                            *)
BlankTextRejected == [][BlankTextStep]_vars

BlankTextRejectedWitness ==
    /\ ShareEnded
    /\ done.f.toasts = << EnterTextToast >>
    /\ text[done.c] = << " " >>
    /\ Len(store) = 1
    /\ myCodes[done.c] = << store[1].code >>
    /\ createdCode[done.c] = store[1].code
    /\ ~isSharing[done.c]

(* C21, as claimed: every stored snippet has a non-empty title: 'Untitled' *)
(* if the title entered is empty or white space only, and the trimmed      *)
(* title entered otherwise.                                                *)
StoredTitleNonEmpty ==
    \A k \in 1..Len(store) :
        LET d == store[k]
        IN /\ d.title # <<>>
           /\ d.title = IF Trim(Entered(d).title) = <<>> THEN Untitled
                        ELSE Trim(Entered(d).title)

----------------------------------------------------------------------------
(* Properties of generateSummary *)

\* the position of a key in the list of keys
KeyIndex(key) == CHOOSE k \in 1..Len(GEMINI_API_KEYS) : GEMINI_API_KEYS[k] = key

\* the key after the given one in the list, wrapping round
NextKey(key) == GEMINI_API_KEYS[(KeyIndex(key) % Len(GEMINI_API_KEYS)) + 1]

(* C15, as claimed: in one invocation, the request after a failed request  *)
(* uses the next key of the list (wrapping round), and no key is used for  *)
(* two requests.                                                           *)
KeyRotation ==
    /\ \A k \in 1..(Len(generate.requests) - 1) :
          generate.requests[k + 1] = NextKey(generate.requests[k])
    /\ \A i, j \in 1..Len(generate.requests) :
          i # j => generate.requests[i] # generate.requests[j]

ErrorToasts(toasts) == SelectSeq(toasts, LAMBDA t : t.kind = "error")

GenerateBounded ==
    LET g == generate
        yielded == \E k \in 1..Len(g.responses) : g.responses[k] = "summary"
    IN /\ Len(g.requests) <= Len(GEMINI_API_KEYS)
       /\ Len(g.responses) = IF g.pc = "fetch" THEN Len(g.requests) - 1 ELSE Len(g.requests)
       /\ \A k \in 1..Len(g.responses) :
             g.responses[k] = "summary" => k = Len(g.requests) /\ g.pc = "idle"
       /\ g.pc = "idle" <=> ~isLoading
       /\ (g.pc = "idle" /\ g.requests # <<>> /\ ~yielded)
             => /\ Len(g.requests) = Len(GEMINI_API_KEYS)
                /\ Len(ErrorToasts(g.toasts)) = 1
                /\ Last(g.toasts).kind = "error"
                /\ summary.kind = "error"
       /\ yielded => ErrorToasts(g.toasts) = <<>> /\ summary.kind = "summary"
       /\ g.pc = "fetch" => ErrorToasts(g.toasts) = <<>>

(* C16: an invocation of generateSummary sends at most 4 requests (one per *)
(* key of the list) and none after the first that yields a summary; if     *)
(* every request fails it shows exactly one error notification, the last   *)
(* thing it shows; isLoading is true exactly while a request is awaited;   *)
(* and, as every request is answered in the end, the invocation ends.      *)
GenerateTerminates == []GenerateBounded /\ ((generate.pc = "fetch") ~> (generate.pc = "idle"))

GenerateTerminatesWitness ==
    /\ generate.pc = "idle"
    /\ generate.responses = << "rejected", "notOk", "noText", "rejected" >>
    /\ Len(generate.requests) = 4
    /\ Len(ErrorToasts(generate.toasts)) = 1
    /\ Len(generate.toasts) = 4
    /\ ~isLoading

----------------------------------------------------------------------------
(* Properties of generateWithAI *)

\* the requests of the invocation that returned a response text that is not empty
WithText(g) ==
    { k \in 1..Len(g.responses) :
         g.responses[k].kind = "ok" /\ Truthy(g.responses[k].text) }

SuccessToasts(toasts) == SelectSeq(toasts, LAMBDA t : t.kind = "success")

(* C26, as claimed: in one invocation of generateWithAI, the first request *)
(* that returns a response text that is not empty is the last request      *)
(* sent, the success notification is shown once, and no failure is         *)
(* reported.                                                               *)
SuccessEndsGeneration ==
    LET g == generateAI
    IN WithText(g) # {}
          => /\ \A k \in WithText(g) : k = Len(g.requests)
             /\ g.pc = "idle"
             /\ Len(SuccessToasts(g.toasts)) = 1
             /\ ErrorToasts(g.toasts) = <<>>

====
